---- MODULE Spec2Model ----
(***************************************************************************)
(* Scope and binding resolution of src/workers/parser/getScopes/visitor.js *)
(* as a state machine.  One run of parseSourceScopes is: Start (getAst,    *)
(* createGlobalScope), then one Enter and one Exit step per AST node in    *)
(* the order of t.traverse, then Finish (the module-scope collapse and     *)
(* toParsedScopes).                                                        *)
(*                                                                         *)
(* The AST is an input.  It is drawn node by node: when a node is entered, *)
(* the headers of its children (everything a handler may read from them:   *)
(* type, kind, name, patterns) are drawn from the grammar in `menu`, and   *)
(* the children's own children are drawn when they are entered in turn.    *)
(* Identifier nodes in binding positions (function ids, parameters,        *)
(* declarator ids, import specifiers) reach no branch of the visitor that  *)
(* changes state; they are kept as attributes of their owner (name, pats,  *)
(* specs) and are not traversed.                                           *)
(*                                                                         *)
(* A source position is symbolic: `line` is the anchor (which node, which  *)
(* of its ends), `column` the offset from it.                              *)
(***************************************************************************)
EXTENDS Integers, Sequences, FiniteSets, TLC

\* Bound: how many nodes of the AST are drawn from the menus
MaxPicks == 4

\* Bound: how many statements a body holds, how many members a class body
MaxKids == 2

VARIABLES
    menu,        \* the grammar the AST is drawn from (input family)
    sourceId,    \* parseSourceScopes' argument
    sourceType,  \* ast.program.sourceType
    astEmpty,    \* whether getAst(sourceId) is empty
    nodes,       \* the AST, as far as it has been drawn: id -> node
    budget,      \* menu picks left
    cursor,      \* the traversal: the open nodes, outermost first
    pc,          \* where parseSourceScopes is
    scopes,      \* the TempScope objects: index -> scope
    scope,       \* state.scope
    scopeStack,  \* state.scopeStack
    stripped,    \* whether stripModuleScope was called
    output,      \* what parseSourceScopes returns
    calls,       \* which call of parseSourceScopes(sourceId) this is
    firstOutput  \* what the first call returned

vars == <<menu, sourceId, sourceType, astEmpty, nodes, budget, cursor, pc,
          scopes, scope, scopeStack, stripped, output, calls, firstOutput>>

--------------------------------------------------------------------------
\* Sequence helpers

RECURSIVE SumSeq(_)
SumSeq(s) == IF s = <<>> THEN 0 ELSE s[1] + SumSeq(Tail(s))

SeqsUpTo(S, n) == UNION {[1..k -> S] : k \in 0..n}

--------------------------------------------------------------------------
\* AST node headers

\* A binding pattern (parseDeclarator's declaratorId)
PId(name) == [ptype |-> "Identifier", name |-> name, elems |-> <<>>]
PArray(elems) == [ptype |-> "ArrayPattern", name |-> "", elems |-> elems]
PObject(elems) == [ptype |-> "ObjectPattern", name |-> "", elems |-> elems]
PAssign(left) == [ptype |-> "AssignmentPattern", name |-> "", elems |-> <<left>>]
PRest(arg) == [ptype |-> "RestElement", name |-> "", elems |-> <<arg>>]

\* An import specifier
ImportSpec(stype, local, imported) ==
    [stype |-> stype, local |-> local, imported |-> imported]

\* The header of a node: what a handler reads of the node itself
Hd(type, kind, name) ==
    [type |-> type, kind |-> kind, name |-> name, pats |-> <<>>,
     specs |-> <<>>, computed |-> FALSE]

HdP(type, kind, name, pats) == [Hd(type, kind, name) EXCEPT !.pats = pats]

FunctionDeclaration(name, params) == HdP("FunctionDeclaration", "", name, params)
FunctionExpression(name, params) == HdP("FunctionExpression", "", name, params)
\* kind "expression": the body is an expression, not a block
ArrowFunctionExpression(kind, params) == HdP("ArrowFunctionExpression", kind, "", params)
ClassMethod(name) == Hd("ClassMethod", "", name)
ClassDeclaration(name) == Hd("ClassDeclaration", "", name)
ClassExpression(name) == Hd("ClassExpression", "", name)
\* kind "value": the field has an initializer
ClassProperty(name, kind) == Hd("ClassProperty", kind, name)
\* kind: of the declaration in the header ("" when there is none)
ForStatement(kind, pats) == HdP("ForStatement", kind, "", pats)
ForOfStatement(kind, pats) == HdP("ForOfStatement", kind, "", pats)
ForInStatement(kind, pats) == HdP("ForInStatement", kind, "", pats)
TryStatement(param) == HdP("TryStatement", "", "", param)
BlockStatement == Hd("BlockStatement", "", "")
VariableDeclaration(kind, pats) == HdP("VariableDeclaration", kind, "", pats)
ImportDeclaration(specs) == [Hd("ImportDeclaration", "", "") EXCEPT !.specs = specs]
\* kind "lexical": some case holds a let/const declaration
SwitchStatement(kind) == Hd("SwitchStatement", kind, "")
ExpressionStatement == Hd("ExpressionStatement", "", "")
ReturnStatement == Hd("ReturnStatement", "", "")
Identifier(name) == Hd("Identifier", "", name)
ThisExpression == Hd("ThisExpression", "", "")
NumericLiteral == Hd("NumericLiteral", "", "")
StringLiteral(value) == Hd("StringLiteral", "", value)
ObjectExpression == Hd("ObjectExpression", "", "")
AssignmentExpression == Hd("AssignmentExpression", "", "")
BinaryExpression == Hd("BinaryExpression", "", "")
\* obj.name (computed FALSE), obj["name"] (kind "StringLiteral"),
\* obj[name] (kind "Identifier")
MemberExpression(computed, kind, name) ==
    [Hd("MemberExpression", kind, name) EXCEPT !.computed = computed]
\* kind: the number of arguments, "0" or "1"
CallExpression(kind) == Hd("CallExpression", kind, "")
\* kind "2": (0, e); kind "3": (0, 0, e); kind "rev": (e, 0)
SequenceExpression(kind) == Hd("SequenceExpression", kind, "")

\* t.isFunction
IsFunction(n) ==
    n.type \in {"FunctionDeclaration", "FunctionExpression",
                "ArrowFunctionExpression", "ClassMethod"}

\* t.isClass
IsClass(n) == n.type \in {"ClassDeclaration", "ClassExpression"}

\* t.isForXStatement
IsForXStatement(n) == n.type \in {"ForOfStatement", "ForInStatement"}

IsForStatement(n) == n.type = "ForStatement"

\* A child slot of a node: the header, the key under which the parent holds
\* it, and whether it is a pick from a menu list
Slot(hd, key, counted) == [hd |-> hd, key |-> key, counted |-> counted]

\* The expressions a node of this header must have as children
NPicks(h) ==
    CASE h.type \in {"ExpressionStatement", "ReturnStatement", "SwitchStatement",
                     "MemberExpression"} -> 1
      [] h.type \in {"AssignmentExpression", "BinaryExpression"} -> 2
      [] h.type = "CallExpression" -> IF h.kind = "1" THEN 2 ELSE 1
      [] h.type = "SequenceExpression" -> 1
      [] h.type \in {"ForOfStatement", "ForInStatement"} -> 1
      [] h.type = "ArrowFunctionExpression" -> IF h.kind = "expression" THEN 1 ELSE 0
      [] h.type = "ClassProperty" -> IF h.kind = "value" THEN 1 ELSE 0
      [] h.type = "VariableDeclarator" -> IF h.kind = "init" THEN 1 ELSE 0
      [] OTHER -> 0

\* What drawing a child costs: a pick from a list costs one; the slots its
\* own mandatory expressions need are reserved with it
Pay(slot) == (IF slot.counted THEN 1 ELSE 0) + NPicks(slot.hd)

PaySeq(ks) == SumSeq([i \in 1..Len(ks) |-> Pay(ks[i])])

\* One mandatory expression under `key`
ExprSlots(m, key) == {Slot(e, key, FALSE) : e \in m.exprs}

\* A body: up to MaxKids statements
BodySlots(m, key) ==
    {[i \in 1..Len(s) |-> Slot(s[i], key, TRUE)] : s \in SeqsUpTo(m.stmts, MaxKids)}

\* The declaration in a for header
HeaderDeclaration(h, key) ==
    IF h.kind = "" THEN <<>>
    ELSE <<Slot(VariableDeclaration(h.kind, h.pats), key, FALSE)>>

\* The declarators of a declaration, each with or without an initializer
DeclaratorSlots(h, m) ==
    {[i \in 1..Len(h.pats) |->
        Slot(HdP("VariableDeclarator", f[i], "", <<h.pats[i]>>), "declarations", FALSE)]
     : f \in [1..Len(h.pats) -> IF m.exprs = {} THEN {""} ELSE {"", "init"}]}

\* The children a node of header h may have, in babel's traversal order
\* (VISITOR_KEYS); every choice is a sequence of slots
KidChoices(h, m) ==
    CASE h.type = "File" ->
           {<<Slot(Hd("Program", sourceType, ""), "program", FALSE)>>}
      [] h.type \in {"Program", "BlockStatement"} -> BodySlots(m, "body")
      [] h.type \in {"FunctionDeclaration", "FunctionExpression", "ClassMethod"} ->
           {<<Slot(BlockStatement, "body", FALSE)>>}
      [] h.type = "ArrowFunctionExpression" ->
           IF h.kind = "expression"
           THEN {<<e>> : e \in ExprSlots(m, "body")}
           ELSE {<<Slot(BlockStatement, "body", FALSE)>>}
      [] h.type \in {"ClassDeclaration", "ClassExpression"} ->
           {<<Slot(Hd("ClassBody", "", ""), "body", FALSE)>>}
      [] h.type = "ClassBody" ->
           {[i \in 1..Len(s) |-> Slot(s[i], "body", TRUE)]
              : s \in SeqsUpTo(m.members, MaxKids)}
      [] h.type = "ClassProperty" ->
           IF h.kind = "value"
           THEN {<<e>> : e \in ExprSlots(m, "value")}
           ELSE {<<>>}
      [] h.type = "ForStatement" ->
           {HeaderDeclaration(h, "init") \o <<Slot(BlockStatement, "body", FALSE)>>}
      [] h.type \in {"ForOfStatement", "ForInStatement"} ->
           {HeaderDeclaration(h, "left") \o <<e, Slot(BlockStatement, "body", FALSE)>>
              : e \in ExprSlots(m, "right")}
      [] h.type = "TryStatement" ->
           {<<Slot(BlockStatement, "block", FALSE),
              Slot(HdP("CatchClause", "", "", h.pats), "handler", FALSE)>>}
      [] h.type = "CatchClause" -> {<<Slot(BlockStatement, "body", FALSE)>>}
      [] h.type = "SwitchStatement" ->
           {<<e, Slot(Hd("SwitchCase", h.kind, ""), "cases", FALSE)>>
              : e \in ExprSlots(m, "discriminant")}
      [] h.type = "SwitchCase" ->
           IF h.kind = "lexical"
           THEN {<<Slot(VariableDeclaration(k, <<PId("a")>>), "consequent", FALSE)>>
                   : k \in {"let", "const"}}
           ELSE {<<>>}
      [] h.type = "VariableDeclaration" -> DeclaratorSlots(h, m)
      [] h.type = "VariableDeclarator" ->
           IF h.kind = "init" THEN {<<e>> : e \in ExprSlots(m, "init")} ELSE {<<>>}
      [] h.type \in {"ExpressionStatement"} ->
           {<<e>> : e \in ExprSlots(m, "expression")}
      [] h.type = "ReturnStatement" -> {<<e>> : e \in ExprSlots(m, "argument")}
      [] h.type \in {"AssignmentExpression", "BinaryExpression"} ->
           {<<l, r>> : l \in ExprSlots(m, "left"), r \in ExprSlots(m, "right")}
      [] h.type = "MemberExpression" ->
           {<<o, Slot(IF h.computed THEN Hd(h.kind, "", h.name) ELSE Identifier(h.name),
                      "property", FALSE)>>
              : o \in ExprSlots(m, "object")}
      [] h.type = "CallExpression" ->
           IF h.kind = "1"
           THEN {<<c, a>> : c \in ExprSlots(m, "callee"), a \in ExprSlots(m, "arguments")}
           ELSE {<<c>> : c \in ExprSlots(m, "callee")}
      [] h.type = "SequenceExpression" ->
           CASE h.kind = "2" ->
                  {<<Slot(NumericLiteral, "expressions", FALSE), e>>
                     : e \in ExprSlots(m, "expressions")}
             [] h.kind = "3" ->
                  {<<Slot(NumericLiteral, "expressions", FALSE),
                     Slot(NumericLiteral, "expressions", FALSE), e>>
                     : e \in ExprSlots(m, "expressions")}
             [] OTHER ->
                  {<<e, Slot(NumericLiteral, "expressions", FALSE)>>
                     : e \in ExprSlots(m, "expressions")}
      [] OTHER -> {<<>>}

\* A node of the table: its header, its place, its children once drawn
MkNode(slot, parent) ==
    [type |-> slot.hd.type, kind |-> slot.hd.kind, name |-> slot.hd.name,
     pats |-> slot.hd.pats, specs |-> slot.hd.specs, computed |-> slot.hd.computed,
     key |-> slot.key, parent |-> parent, kids |-> <<>>, entered |-> FALSE]

HeaderOf(n) ==
    [type |-> n.type, kind |-> n.kind, name |-> n.name, pats |-> n.pats,
     specs |-> n.specs, computed |-> n.computed]

\* The table with node id entered and its children drawn as ks
Expand(ns, id, ks) ==
    LET first == Len(ns)
        withKids == [ns EXCEPT ![id].kids = [i \in 1..Len(ks) |-> first + i],
                               ![id].entered = TRUE]
    IN withKids \o [i \in 1..Len(ks) |-> MkNode(ks[i], id)]

--------------------------------------------------------------------------
\* Locations

\* A position of the AST (BabelLocation's start or end): `line` names the
\* anchor, `column` the offset from it
Pos(tag, id, path, side) == [line |-> <<tag, id, path, side>>, column |-> 0]

Range(tag, id, path) ==
    [start |-> Pos(tag, id, path, "start"), end |-> Pos(tag, id, path, "end")]

\* node.loc
NodeLoc(id) == Range("node", id, <<>>)

\* node.id.loc
IdLoc(id) == Range("id", id, <<>>)

\* The loc of the pattern at `path` among the patterns of node `owner`
PatLoc(owner, path) == Range("pat", owner, path)

\* spec.local.loc
SpecLoc(id, i) == Range("spec", id, <<i>>)

FromBabelLocation(location, sid) ==
    [sourceId |-> sid, line |-> location.line, column |-> location.column]

NoLocation == [sourceId |-> "", line |-> <<"", 0, <<>>, "">>, column |-> 0]

NoDeclaration == [start |-> NoLocation, end |-> NoLocation]

\* A BindingDeclarationLocation; importName "" and declaration NoDeclaration
\* stand for an absent field
DeclRef(idLoc, declaration, importName, sid) ==
    [type |-> "decl",
     start |-> FromBabelLocation(idLoc.start, sid),
     end |-> FromBabelLocation(idLoc.end, sid),
     declaration |-> declaration,
     importName |-> importName,
     meta |-> <<>>]

DeclarationOf(id, sid) ==
    [start |-> FromBabelLocation(NodeLoc(id).start, sid),
     end |-> FromBabelLocation(NodeLoc(id).end, sid)]

\* A BindingRefLocation; meta is the chain of links, innermost first: the
\* parent of a link is the rest of the chain, and null is the empty chain
UseRef(id, meta, sid) ==
    [type |-> "ref",
     start |-> FromBabelLocation(NodeLoc(id).start, sid),
     end |-> FromBabelLocation(NodeLoc(id).end, sid),
     declaration |-> NoDeclaration,
     importName |-> "",
     meta |-> meta]

--------------------------------------------------------------------------
\* Scopes

EmptyBindings == [x \in {} |-> [type |-> "", refs |-> <<>>]]

Binding(type, refs) == [type |-> type, refs |-> refs]

\* bindings[name] = b
SetBinding(bindings, name, b) ==
    [x \in (DOMAIN bindings) \cup {name} |-> IF x = name THEN b ELSE bindings[x]]

SetScopeBinding(scs, s, name, b) ==
    [scs EXCEPT ![s].bindings = SetBinding(@, name, b)]

\* bindings[name].refs.push(ref)
PushRef(scs, s, name, ref) ==
    [scs EXCEPT ![s].bindings[name].refs = Append(@, ref)]

\* createTempScope: the new scope is the last of the result; parent 0 is null
\* Mutant of createTempScope: the parent's children are left as they are
CreateTempScopeUnlisted(scs, type, displayName, parent, loc) ==
    Append(scs, [type |-> type, displayName |-> displayName, parent |-> parent,
                 children |-> <<>>, loc |-> loc, bindings |-> EmptyBindings])

CreateTempScope(scs, type, displayName, parent, loc) ==
    LET result == [type |-> type, displayName |-> displayName, parent |-> parent,
                   children |-> <<>>, loc |-> loc, bindings |-> EmptyBindings]
        new == Len(scs) + 1
    IN IF parent # 0
       THEN Append([scs EXCEPT ![parent].children = Append(@, new)], result)
       ELSE Append(scs, result)

\* The traversal state is st = [scopes, scope, scopeStack]
PushTempScope(st, type, displayName, loc) ==
    LET scs == CreateTempScope(st.scopes, type, displayName, st.scope, loc)
    IN [st EXCEPT !.scopes = scs, !.scope = Len(scs)]

ScopeLoc(start, end, sid) ==
    [start |-> FromBabelLocation(start, sid), end |-> FromBabelLocation(end, sid)]

RECURSIVE GetVarScope(_, _)
GetVarScope(scs, s) ==
    IF scs[s].type # "function" /\ scs[s].type # "module"
    THEN IF scs[s].parent = 0 THEN s ELSE GetVarScope(scs, scs[s].parent)
    ELSE s

\* Mutant of findIdentifierInScopes: only the active scope is searched
FindIdentifierInActiveScope(scs, s, name) ==
    IF s = 0 THEN 0
    ELSE IF name \in DOMAIN scs[s].bindings THEN s
    ELSE 0

\* 0 is null
RECURSIVE FindIdentifierInScopes(_, _, _)
FindIdentifierInScopes(scs, s, name) ==
    IF s = 0 THEN 0
    ELSE IF name \in DOMAIN scs[s].bindings THEN s
    ELSE FindIdentifierInScopes(scs, scs[s].parent, name)

IsLetOrConst(n) == n.kind = "let" \/ n.kind = "const"

IsLexicalVariable(n) == n.type = "VariableDeclaration" /\ IsLetOrConst(n)

\* Mutant of hasLexicalDeclaration: a function body is a block like any other
HasLexicalDeclarationAnyBlock(ns, id, parentId) ==
    \E i \in 1..Len(ns[id].kids) :
       LET child == ns[ns[id].kids[i]]
       IN \/ IsLexicalVariable(child)
          \/ child.type = "FunctionDeclaration"
          \/ child.type = "ClassDeclaration"

\* parentId 0 is a null parent
HasLexicalDeclaration(ns, id, parentId) ==
    LET isFunctionBody ==
            /\ parentId # 0
            /\ IsFunction(ns[parentId])
            /\ ns[id].parent = parentId /\ ns[id].key = "body"
    IN \E i \in 1..Len(ns[id].kids) :
          LET child == ns[ns[id].kids[i]]
          IN \/ IsLexicalVariable(child)
             \/ (~isFunctionBody /\ child.type = "FunctionDeclaration")
             \/ child.type = "ClassDeclaration"

\* parseDeclarator: the pattern pat, found at `path` among the patterns of
\* node `owner`, declared by node `declaration`
RECURSIVE ParseDeclarator(_, _, _, _, _, _, _, _)
RECURSIVE ParseDeclarators(_, _, _, _, _, _, _, _, _)
ParseDeclarator(scs, pat, targetScope, type, declaration, owner, path, sid) ==
    CASE pat.ptype = "Identifier" ->
           LET withBinding ==
                   IF pat.name \in DOMAIN scs[targetScope].bindings
                   THEN scs
                   ELSE SetScopeBinding(scs, targetScope, pat.name, Binding(type, <<>>))
           IN PushRef(withBinding, targetScope, pat.name,
                      DeclRef(PatLoc(owner, path), DeclarationOf(declaration, sid), "", sid))
      [] pat.ptype \in {"ObjectPattern", "ArrayPattern"} ->
           ParseDeclarators(scs, pat.elems, 1, targetScope, type, declaration, owner, path, sid)
      [] pat.ptype \in {"AssignmentPattern", "RestElement"} ->
           ParseDeclarator(scs, pat.elems[1], targetScope, type, declaration, owner,
                           Append(path, 1), sid)
      [] OTHER -> scs

\* forEach over the patterns pats[i..], each at path \o <<its index>>
ParseDeclarators(scs, pats, i, targetScope, type, declaration, owner, path, sid) ==
    IF i > Len(pats) THEN scs
    ELSE ParseDeclarators(
           ParseDeclarator(scs, pats[i], targetScope, type, declaration, owner,
                           Append(path, i), sid),
           pats, i + 1, targetScope, type, declaration, owner, path, sid)

--------------------------------------------------------------------------
\* Meta bindings

MetaLink(type, loc, property, sid) ==
    [type |-> type,
     start |-> FromBabelLocation(loc.start, sid),
     end |-> FromBabelLocation(loc.end, sid),
     property |-> property]

\* Consider "0, foo" to be equivalent to "foo"
IsCommaDiscard(ns, node, parent) ==
    /\ ns[parent].type = "SequenceExpression"
    /\ Len(ns[parent].kids) = 2
    /\ ns[ns[parent].kids[1]].type = "NumericLiteral"
    /\ ns[parent].kids[2] = node

\* Mutant of the comma-discard range: never widened
CommaDiscardRangeNarrow(ns, parent, grandparent) == NodeLoc(parent)

\* The range of the inherit link of a comma-discard: expanded around the
\* parentheses when the comma expression is the callee of the grandparent
CommaDiscardRange(ns, parent, grandparent) ==
    IF ns[grandparent].type = "CallExpression" /\ ns[grandparent].kids[1] = parent
    THEN [start |-> NodeLoc(grandparent).start,
          end |-> [NodeLoc(parent).end EXCEPT !.column = @ + 1]]
    ELSE NodeLoc(parent)

\* Consider "Object(foo)" to be equivalent to "foo"
IsObjectCall(ns, node, parent) ==
    /\ ns[parent].type = "CallExpression"
    /\ ns[ns[parent].kids[1]].type = "Identifier"
    /\ ns[ns[parent].kids[1]].name = "Object"
    /\ Len(ns[parent].kids) - 1 = 1
    /\ ns[parent].kids[2] = node

\* Mutant of the member pattern: any computed key counts
IsAnyMemberObject(ns, node, parent) ==
    ns[parent].type = "MemberExpression" /\ ns[parent].kids[1] = node

\* The node is the object of a member access whose key is known: not
\* computed, or a string literal
IsStaticMemberObject(ns, node, parent) ==
    /\ ns[parent].type = "MemberExpression" /\ ns[parent].kids[1] = node
    /\ ns[parent].computed => ns[ns[parent].kids[2]].type = "StringLiteral"

\* Mutant of the call pattern: calls with arguments count too
IsCalleeAnyArguments(ns, node, parent) ==
    ns[parent].type = "CallExpression" /\ ns[parent].kids[1] = node

\* The node is the callee of a call without arguments
IsCalleeNoArguments(ns, node, parent) ==
    /\ ns[parent].type = "CallExpression" /\ ns[parent].kids[1] = node
    /\ Len(ns[parent].kids) - 1 = 0

\* buildMetaBindings; anc holds the ancestors' ids, anc[k + 1] being the
\* code's ancestors[k]
RECURSIVE BuildMetaBindings(_, _, _, _, _)
BuildMetaBindings(ns, sid, node, anc, parentIndex) ==
    IF parentIndex <= 1 THEN <<>>
    ELSE
      LET parent == anc[parentIndex + 1]
          grandparent == anc[parentIndex]
          rest == BuildMetaBindings(ns, sid, parent, anc, parentIndex - 1)
      IN IF IsCommaDiscard(ns, node, parent)
         THEN <<MetaLink("inherit", CommaDiscardRange(ns, parent, grandparent), "", sid)>>
              \o rest
         ELSE IF IsObjectCall(ns, node, parent)
         THEN <<MetaLink("inherit", NodeLoc(parent), "", sid)>> \o rest
         ELSE IF IsStaticMemberObject(ns, node, parent)
         THEN <<MetaLink("member", NodeLoc(parent), ns[ns[parent].kids[2]].name, sid)>>
              \o rest
         ELSE IF IsCalleeNoArguments(ns, node, parent)
         THEN <<MetaLink("call", NodeLoc(parent), "", sid)>> \o rest
         ELSE <<>>

--------------------------------------------------------------------------
\* External collaborators

\* getFunctionName(node, parentNode): the node's own name, else a placeholder
GetFunctionName(n) == IF n.name # "" THEN n.name ELSE "anonymous"

\* isGeneratedId(sourceId)
IsGeneratedId(sid) == sid = "generated"

\* t.isReferenced(node, parent), for the positions an Identifier node is
\* drawn in: the property of a member access is referenced only if computed
IsReferenced(ns, id, parentId) ==
    IF parentId # 0 /\ ns[parentId].type = "MemberExpression" /\ ns[id].key = "property"
    THEN ns[parentId].computed
    ELSE TRUE

--------------------------------------------------------------------------
\* scopeCollectionVisitor.enter, branch by branch.  st is the state after
\* state.scopeStack.push(state.scope); ns the AST; id the node; anc its
\* ancestors; parentId the last of them (0: none)

ImplicitBinding == Binding("implicit", <<>>)

\* A binding with the one declaration reference of a named node
NamedBinding(type, id, sid) ==
    Binding(type, <<DeclRef(IdLoc(id), DeclarationOf(id, sid), "", sid)>>)

EnterProgram(st, id, sid) ==
    LET pushed == PushTempScope(st, "module", "Module",
                                ScopeLoc(NodeLoc(id).start, NodeLoc(id).end, sid))
    IN [pushed EXCEPT !.scopes =
          SetScopeBinding(@, pushed.scope, "this", ImplicitBinding)]

\* Mutant of the function-expression name: declared on the active scope,
\* no intermediate scope
FunctionExpressionNameOnActiveScope(st, n, id, sid) ==
    IF n.type = "FunctionExpression" /\ n.name # ""
    THEN [st EXCEPT !.scopes =
            SetScopeBinding(@, st.scope, n.name, NamedBinding("const", id, sid))]
    ELSE st

\* if (t.isFunctionExpression(node) && isNode(node.id, "Identifier"))
EnterFunctionExpressionName(st, n, id, sid) ==
    IF n.type = "FunctionExpression" /\ n.name # ""
    THEN LET pushed == PushTempScope(st, "block", "Function Expression",
                                     ScopeLoc(NodeLoc(id).start, NodeLoc(id).end, sid))
         IN [pushed EXCEPT !.scopes =
               SetScopeBinding(@, pushed.scope, n.name, NamedBinding("const", id, sid))]
    ELSE st

\* type: fnScope === scope ? "var" : "let"
FunctionDeclarationKind(scs, s) == IF GetVarScope(scs, s) = s THEN "var" ELSE "let"

\* if (t.isFunctionDeclaration(node) && isNode(node.id, "Identifier"))
EnterFunctionDeclarationName(st, n, id, sid) ==
    IF n.type = "FunctionDeclaration" /\ n.name # ""
    THEN [st EXCEPT !.scopes =
            SetScopeBinding(@, st.scope, n.name,
               NamedBinding(FunctionDeclarationKind(st.scopes, st.scope), id, sid))]
    ELSE st

\* Mutant of the seeding: arrow functions get this and arguments too
SeedArrowFunctionsToo(scs, s, n) ==
    SetScopeBinding(SetScopeBinding(scs, s, "this", ImplicitBinding),
                    s, "arguments", ImplicitBinding)

\* The implicit bindings a new function scope gets
SeedFunctionScope(scs, s, n) ==
    IF n.type # "ArrowFunctionExpression"
    THEN SetScopeBinding(SetScopeBinding(scs, s, "this", ImplicitBinding),
                         s, "arguments", ImplicitBinding)
    ELSE scs

EnterFunction(st, n, id, sid) ==
    LET named == EnterFunctionDeclarationName(
                    EnterFunctionExpressionName(st, n, id, sid), n, id, sid)
        start == IF Len(n.pats) > 0 THEN PatLoc(id, <<1>>).start ELSE NodeLoc(id).start
        pushed == PushTempScope(named, "function", GetFunctionName(n),
                                ScopeLoc(start, NodeLoc(id).end, sid))
        withParams == ParseDeclarators(pushed.scopes, n.pats, 1, pushed.scope, "var",
                                       id, id, <<>>, sid)
    IN [pushed EXCEPT !.scopes = SeedFunctionScope(withParams, pushed.scope, n)]

EnterClass(st, n, id, sid) ==
    LET declared ==
            IF n.type = "ClassDeclaration" /\ n.name # ""
            THEN [st EXCEPT !.scopes =
                    SetScopeBinding(@, st.scope, n.name, NamedBinding("let", id, sid))]
            ELSE st
    IN IF n.name # ""
       THEN LET pushed == PushTempScope(declared, "block", "Class",
                                        ScopeLoc(NodeLoc(id).start, NodeLoc(id).end, sid))
            IN [pushed EXCEPT !.scopes =
                  SetScopeBinding(@, pushed.scope, n.name, NamedBinding("const", id, sid))]
       ELSE declared

\* const init = node.init || node.left: the id of that child, 0 if the
\* header holds no declaration
ForInit(ns, id) ==
    IF Len(ns[id].kids) > 0 /\ ns[ns[id].kids[1]].key \in {"init", "left"}
    THEN ns[id].kids[1]
    ELSE 0

\* Mutant of the for branch: the scope starts at the loop's start
EnterForAtLoopStart(st, ns, id, sid) ==
    LET init == ForInit(ns, id)
    IN IF init # 0 /\ ns[init].type = "VariableDeclaration" /\ IsLetOrConst(ns[init])
       THEN PushTempScope(st, "block", "For",
                          ScopeLoc(NodeLoc(id).start, NodeLoc(id).end, sid))
       ELSE st

EnterFor(st, ns, id, sid) ==
    LET init == ForInit(ns, id)
    IN IF init # 0 /\ ns[init].type = "VariableDeclaration" /\ IsLetOrConst(ns[init])
       THEN PushTempScope(st, "block", "For",
                          ScopeLoc(NodeLoc(init).start, NodeLoc(id).end, sid))
       ELSE st

EnterCatchClause(st, n, id, sid) ==
    LET pushed == PushTempScope(st, "block", "Catch",
                                ScopeLoc(NodeLoc(id).start, NodeLoc(id).end, sid))
    IN [pushed EXCEPT !.scopes =
          ParseDeclarators(@, n.pats, 1, pushed.scope, "var", id, id, <<>>, sid)]

EnterBlock(st, id, sid) ==
    PushTempScope(st, "block", "Block",
                  ScopeLoc(NodeLoc(id).start, NodeLoc(id).end, sid))

\* The condition of the variable-declaration branch
IsHoistedDeclaration(ns, id, parentId) ==
    /\ ns[id].type = "VariableDeclaration"
    /\ \/ ns[id].kind = "var"
       \/ ~(parentId # 0 /\ IsForStatement(ns[parentId]) /\ ns[id].key = "init")
       \/ ~(parentId # 0 /\ IsForXStatement(ns[parentId]) /\ ns[id].key = "left")

\* Mutant of hoistAt: always the active scope
HoistAtActiveScope(scs, s, n) == s

\* const hoistAt = !isLetOrConst(node) ? getVarScope(state.scope) : state.scope
HoistAt(scs, s, n) == IF ~IsLetOrConst(n) THEN GetVarScope(scs, s) ELSE s

\* node.declarations.forEach(declarator => parseDeclarator(declarator.id, ...))
RECURSIVE DeclareAll(_, _, _, _, _, _, _)
DeclareAll(scs, ns, decls, i, hoistAt, id, sid) ==
    IF i > Len(decls) THEN scs
    ELSE DeclareAll(
           ParseDeclarator(scs, ns[decls[i]].pats[1], hoistAt, ns[id].kind, id,
                           decls[i], <<>>, sid),
           ns, decls, i + 1, hoistAt, id, sid)

EnterVariableDeclaration(st, ns, id, sid) ==
    [st EXCEPT !.scopes =
       DeclareAll(@, ns, ns[id].kids, 1, HoistAt(st.scopes, st.scope, ns[id]), id, sid)]

\* node.specifiers.forEach
RECURSIVE ImportAll(_, _, _, _, _, _)
ImportAll(scs, s, specs, i, id, sid) ==
    IF i > Len(specs) THEN scs
    ELSE LET spec == specs[i]
             b == IF spec.stype = "ImportNamespaceSpecifier"
                  THEN Binding("const",
                          <<DeclRef(SpecLoc(id, i), NoDeclaration, "", sid)>>)
                  ELSE Binding("import",
                          <<DeclRef(SpecLoc(id, i), DeclarationOf(id, sid),
                                    IF spec.stype = "ImportDefaultSpecifier"
                                    THEN "default" ELSE spec.imported,
                                    sid)>>)
         IN ImportAll(SetScopeBinding(scs, s, spec.local, b), s, specs, i + 1, id, sid)

EnterImportDeclaration(st, n, id, sid) ==
    [st EXCEPT !.scopes = ImportAll(@, st.scope, n.specs, 1, id, sid)]

\* The identifier and this-expression branches: the reference goes to the
\* nearest scope that holds the name, or nowhere
EnterReference(st, ns, id, name, anc, sid) ==
    LET identScope == FindIdentifierInScopes(st.scopes, st.scope, name)
    IN IF identScope # 0
       THEN [st EXCEPT !.scopes =
               PushRef(@, identScope, name,
                       UseRef(id, BuildMetaBindings(ns, sid, id, anc, Len(anc) - 1), sid))]
       ELSE st

\* t.isClassProperty(parentNode, { value: node })
IsClassPropertyValue(ns, id, parentId) ==
    parentId # 0 /\ ns[parentId].type = "ClassProperty" /\ ns[id].key = "value"

EnterClassField(st, id, sid) ==
    LET pushed == PushTempScope(st, "function", "Class Field",
                                ScopeLoc(NodeLoc(id).start, NodeLoc(id).end, sid))
    IN [pushed EXCEPT !.scopes =
          SetScopeBinding(SetScopeBinding(@, pushed.scope, "this", ImplicitBinding),
                          pushed.scope, "arguments", ImplicitBinding)]

\* node.cases.some(caseNode => caseNode.consequent.some(isLexicalVariable));
\* a case's header tells whether its consequent holds such a declaration
SwitchHasLexical(ns, id) ==
    \E i \in 1..Len(ns[id].kids) :
       ns[ns[id].kids[i]].type = "SwitchCase" /\ ns[ns[id].kids[i]].kind = "lexical"

EnterSwitch(st, id, sid) ==
    PushTempScope(st, "block", "Switch",
                  ScopeLoc(NodeLoc(id).start, NodeLoc(id).end, sid))

\* The else-if chain of enter, in the code's order
EnterBranches(st, ns, id, anc, sid) ==
    LET n == ns[id]
        parentId == IF Len(anc) = 0 THEN 0 ELSE anc[Len(anc)]
    IN IF n.type = "Program" THEN EnterProgram(st, id, sid)
       ELSE IF IsFunction(n) THEN EnterFunction(st, n, id, sid)
       ELSE IF IsClass(n) THEN EnterClass(st, n, id, sid)
       ELSE IF IsForXStatement(n) \/ IsForStatement(n) THEN EnterFor(st, ns, id, sid)
       ELSE IF n.type = "CatchClause" THEN EnterCatchClause(st, n, id, sid)
       ELSE IF n.type = "BlockStatement" /\ HasLexicalDeclaration(ns, id, parentId)
         THEN EnterBlock(st, id, sid)
       ELSE IF IsHoistedDeclaration(ns, id, parentId)
         THEN EnterVariableDeclaration(st, ns, id, sid)
       ELSE IF n.type = "ImportDeclaration" THEN EnterImportDeclaration(st, n, id, sid)
       ELSE IF n.type = "Identifier" /\ IsReferenced(ns, id, parentId)
         THEN EnterReference(st, ns, id, n.name, anc, sid)
       ELSE IF n.type = "ThisExpression" THEN EnterReference(st, ns, id, "this", anc, sid)
       ELSE IF IsClassPropertyValue(ns, id, parentId) THEN EnterClassField(st, id, sid)
       ELSE IF n.type = "SwitchStatement" /\ SwitchHasLexical(ns, id)
         THEN EnterSwitch(st, id, sid)
       ELSE st

\* enter: state.scopeStack.push(state.scope), then the branches
EnterHandler(st, ns, id, anc, sid) ==
    EnterBranches([st EXCEPT !.scopeStack = Append(@, st.scope)], ns, id, anc, sid)

\* Mutant of exit: pops, and leaves state.scope as it is
ExitHandlerKeepsScope(st) ==
    IF Len(st.scopeStack) = 0
    THEN [st |-> st, ok |-> FALSE]
    ELSE [st |-> [st EXCEPT !.scopeStack = SubSeq(@, 1, Len(@) - 1)], ok |-> TRUE]

\* exit: const scope = state.scopeStack.pop(); state.scope = scope.
\* The result's `ok` is FALSE where the code throws (nothing to pop)
ExitHandler(st) ==
    IF Len(st.scopeStack) = 0
    THEN [st |-> st, ok |-> FALSE]
    ELSE [st |-> [st EXCEPT !.scope = st.scopeStack[Len(st.scopeStack)],
                            !.scopeStack = SubSeq(@, 1, Len(@) - 1)],
          ok |-> TRUE]

--------------------------------------------------------------------------
\* After the traversal

\* createGlobalScope: the global scope is scope 1, the lexical global scope 2
GlobalNames == {"module", "exports", "__dirname", "__filename", "require"}

\* Mutant of createGlobalScope: the two global scopes are made once and kept
\* for later calls
CreateGlobalScopeKept(sid) ==
    IF Len(scopes) >= 2 THEN SubSeq(scopes, 1, 2)
    ELSE LET loc == ScopeLoc(NodeLoc(1).start, NodeLoc(1).end, sid)
             global == CreateTempScope(<<>>, "object", "Global", 0, loc)
             seeded == [global EXCEPT ![1].bindings =
                                        [x \in GlobalNames |-> Binding("var", <<>>)]]
         IN CreateTempScope(seeded, "block", "Lexical Global", 1, loc)

CreateGlobalScope(sid) ==
    LET loc == ScopeLoc(NodeLoc(1).start, NodeLoc(1).end, sid)
        global == CreateTempScope(<<>>, "object", "Global", 0, loc)
        seeded == [global EXCEPT ![1].bindings = [x \in GlobalNames |-> Binding("var", <<>>)]]
    IN CreateTempScope(seeded, "block", "Lexical Global", 1, loc)

LooksLikeCommonJS(rootScope) ==
    \/ Len(rootScope.bindings["__dirname"].refs) > 0
    \/ Len(rootScope.bindings["__filename"].refs) > 0
    \/ Len(rootScope.bindings["require"].refs) > 0
    \/ Len(rootScope.bindings["exports"].refs) > 0
    \/ Len(rootScope.bindings["module"].refs) > 0

\* Mutant of the condition: the collapse for sources that look like CommonJS
ShouldStripCommonJS(sid, programSourceType, rootScope) ==
    \/ IsGeneratedId(sid)
    \/ (programSourceType = "script" /\ LooksLikeCommonJS(rootScope))

\* The condition under which parseSourceScopes calls stripModuleScope
ShouldStrip(sid, programSourceType, rootScope) ==
    \/ IsGeneratedId(sid)
    \/ (programSourceType = "script" /\ ~LooksLikeCommonJS(rootScope))

\* Mutant of the target: every binding goes to the global object scope
StripTargetAlwaysRoot(binding, rootScope, rootLexicalScope) == rootScope

\* Where stripModuleScope puts a binding of the module scope
StripTarget(binding, rootScope, rootLexicalScope) ==
    IF binding.type = "let" \/ binding.type = "const" THEN rootLexicalScope ELSE rootScope

\* stripModuleScope(rootScope); `ok` is FALSE where the code throws
StripModuleScope(scs, rootScope) ==
    IF \/ Len(scs[rootScope].children) = 0
       \/ Len(scs[scs[rootScope].children[1]].children) = 0
       \/ scs[scs[scs[rootScope].children[1]].children[1]].type # "module"
    THEN [scopes |-> scs, ok |-> FALSE]
    ELSE
      LET rootLexicalScope == scs[rootScope].children[1]
          moduleScope == scs[rootLexicalScope].children[1]
          moved == scs[moduleScope].bindings
          to(s) == {name \in DOMAIN moved :
                      StripTarget(moved[name], rootScope, rootLexicalScope) = s}
          merged(s) == [name \in (DOMAIN scs[s].bindings) \cup to(s) |->
                          IF name \in to(s) THEN moved[name] ELSE scs[s].bindings[name]]
          children == scs[moduleScope].children
      IN [scopes |->
            [s \in 1..Len(scs) |->
               IF s = rootScope THEN [scs[s] EXCEPT !.bindings = merged(s)]
               ELSE IF s = rootLexicalScope
                 THEN [scs[s] EXCEPT !.bindings = merged(s), !.children = children]
               ELSE IF \E i \in 1..Len(children) : children[i] = s
                 THEN [scs[s] EXCEPT !.parent = rootLexicalScope]
               ELSE scs[s]],
          ok |-> TRUE]

\* Mutant of toParsedScopes: every scope keeps its type
RECURSIVE ToParsedScopesKeepTypes(_, _)
ToParsedScopesKeepTypes(scs, children) ==
    [i \in 1..Len(children) |->
       LET s == scs[children[i]]
       IN [start |-> s.loc.start,
           end |-> s.loc.end,
           type |-> s.type,
           displayName |-> s.displayName,
           bindings |-> s.bindings,
           children |-> ToParsedScopesKeepTypes(scs, s.children)]]

\* toParsedScopes(children, sourceId); the empty sequence stands for undefined
RECURSIVE ToParsedScopes(_, _)
ToParsedScopes(scs, children) ==
    [i \in 1..Len(children) |->
       LET s == scs[children[i]]
       IN [start |-> s.loc.start,
           end |-> s.loc.end,
           type |-> IF s.type = "module" THEN "block" ELSE s.type,
           displayName |-> s.displayName,
           bindings |-> s.bindings,
           children |-> ToParsedScopes(scs, s.children)]]

--------------------------------------------------------------------------
\* The run

NoOutput == [value |-> "pending", scopes |-> <<>>]

FileNode == MkNode(Slot(Hd("File", "", ""), "", FALSE), 0)

\* The states before parseSourceScopes(sourceId) is called, for the ASTs
\* of the grammars in menus
InitWith(menus, sourceIds, sourceTypes, picks) ==
    /\ menu \in menus
    /\ sourceId \in sourceIds
    /\ sourceType \in sourceTypes
    /\ astEmpty \in BOOLEAN
    /\ nodes = <<FileNode>>
    /\ budget = picks
    /\ cursor = <<>>
    /\ pc = "start"
    /\ scopes = <<>>
    /\ scope = 0
    /\ scopeStack = <<>>
    /\ stripped = FALSE
    /\ output = NoOutput
    /\ calls = 1
    /\ firstOutput = NoOutput

\* Mutant of the start: the AST is traversed even if it is empty
StartWithoutEmptyTest ==
    /\ pc = "start"
    /\ pc' = "ready"
    /\ scopes' = CreateGlobalScope(sourceId)
    /\ scope' = 2
    /\ scopeStack' = <<>>
    /\ UNCHANGED <<menu, sourceId, sourceType, astEmpty, nodes, budget, cursor, stripped,
                   output, calls, firstOutput>>

\* parseSourceScopes up to the call of t.traverse
Start ==
    /\ pc = "start"
    /\ IF astEmpty
       THEN /\ pc' = "returned"
            /\ output' = [value |-> "null", scopes |-> <<>>]
            /\ UNCHANGED <<scopes, scope, scopeStack>>
       ELSE /\ pc' = "ready"
            /\ scopes' = CreateGlobalScope(sourceId)
            /\ scope' = 2
            /\ scopeStack' = <<>>
            /\ output' = output
    /\ UNCHANGED <<menu, sourceId, sourceType, astEmpty, nodes, budget, cursor, stripped,
                   calls, firstOutput>>

\* The node t.traverse enters next: the root, or the next child of the
\* innermost open node; 0 when that node has no child left
NextNode ==
    IF pc = "ready" THEN 1
    ELSE IF pc = "traverse" /\ cursor[Len(cursor)].idx < Len(nodes[cursor[Len(cursor)].node].kids)
    THEN nodes[cursor[Len(cursor)].node].kids[cursor[Len(cursor)].idx + 1]
    ELSE 0

Ancestors == [i \in 1..Len(cursor) |-> cursor[i].node]

\* t.traverse calls enter on the next node (whose children are drawn here)
Enter ==
    /\ pc \in {"ready", "traverse"}
    /\ NextNode # 0
    /\ ~nodes[NextNode].entered
    /\ \E ks \in KidChoices(HeaderOf(nodes[NextNode]), menu) :
         /\ PaySeq(ks) <= budget
         /\ LET id == NextNode
                ns == Expand(nodes, id, ks)
                st == EnterHandler([scopes |-> scopes, scope |-> scope,
                                    scopeStack |-> scopeStack],
                                   ns, id, Ancestors, sourceId)
            IN /\ nodes' = ns
               /\ budget' = budget - PaySeq(ks)
               /\ cursor' = Append(cursor, [node |-> id, idx |-> 0, entry |-> scope])
               /\ scopes' = st.scopes
               /\ scope' = st.scope
               /\ scopeStack' = st.scopeStack
    /\ pc' = "traverse"
    /\ UNCHANGED <<menu, sourceId, sourceType, astEmpty, stripped, output, calls,
                   firstOutput>>

\* t.traverse calls exit on the innermost open node, all its children done
Exit ==
    /\ pc = "traverse"
    /\ NextNode = 0
    /\ LET r == ExitHandler([scopes |-> scopes, scope |-> scope,
                             scopeStack |-> scopeStack])
           n == Len(cursor)
       IN IF r.ok
          THEN /\ scope' = r.st.scope
               /\ scopeStack' = r.st.scopeStack
               /\ cursor' = IF n = 1 THEN <<>>
                            ELSE [SubSeq(cursor, 1, n - 1) EXCEPT ![n - 1].idx = @ + 1]
               /\ pc' = IF n = 1 THEN "traversed" ELSE "traverse"
          ELSE /\ pc' = "Assertion failure - unsynchronized pop"
               /\ UNCHANGED <<scope, scopeStack, cursor>>
    /\ UNCHANGED <<menu, sourceId, sourceType, astEmpty, nodes, budget, scopes,
                   stripped, output, calls, firstOutput>>

\* parseSourceScopes after t.traverse: the collapse, then the output
Finish ==
    /\ pc = "traversed"
    /\ LET program == nodes[nodes[1].kids[1]]
           strip == ShouldStrip(sourceId, program.kind, scopes[1])
           r == IF strip THEN StripModuleScope(scopes, 1)
                ELSE [scopes |-> scopes, ok |-> TRUE]
       IN /\ stripped' = strip
          /\ scopes' = r.scopes
          /\ IF r.ok
             THEN /\ pc' = "done"
                  /\ output' = [value |-> "scopes",
                                scopes |-> ToParsedScopes(r.scopes, <<1>>)]
             ELSE /\ pc' = "Assertion failure - should be module"
                  /\ output' = output
    /\ UNCHANGED <<menu, sourceId, sourceType, astEmpty, nodes, budget, cursor,
                   scope, scopeStack, calls, firstOutput>>

Next == Start \/ Enter \/ Exit \/ Finish

\* parseSourceScopes(sourceId) is called again, for the same source: getAst
\* hands out the AST of the first call, the locals of the first call are
\* garbage until Start assigns them
CallAgain ==
    /\ pc \in {"done", "returned"}
    /\ calls = 1
    /\ calls' = 2
    /\ firstOutput' = output
    /\ output' = NoOutput
    /\ pc' = "start"
    /\ cursor' = <<>>
    /\ stripped' = FALSE
    /\ UNCHANGED <<menu, sourceId, sourceType, astEmpty, nodes, budget, scopes, scope,
                   scopeStack>>

\* t.traverse calls enter on the next node of an AST that was traversed
\* before (its children are the ones drawn then)
EnterAgain ==
    /\ pc \in {"ready", "traverse"}
    /\ NextNode # 0
    /\ nodes[NextNode].entered
    /\ LET id == NextNode
           st == EnterHandler([scopes |-> scopes, scope |-> scope,
                               scopeStack |-> scopeStack],
                              nodes, id, Ancestors, sourceId)
       IN /\ cursor' = Append(cursor, [node |-> id, idx |-> 0, entry |-> scope])
          /\ scopes' = st.scopes
          /\ scope' = st.scope
          /\ scopeStack' = st.scopeStack
    /\ pc' = "traverse"
    /\ UNCHANGED <<menu, sourceId, sourceType, astEmpty, nodes, budget, stripped, output,
                   calls, firstOutput>>

NextTwice == Next \/ CallAgain \/ EnterAgain

--------------------------------------------------------------------------
\* Grammars

Menu(stmts, exprs, members) == [stmts |-> stmts, exprs |-> exprs, members |-> members]

\* Statements and expressions that push zero, one and two scopes
MenuBasic ==
    Menu({FunctionDeclaration("f", <<PId("a")>>),
          VariableDeclaration("let", <<PId("a")>>),
          ExpressionStatement},
         {FunctionExpression("f", <<>>), Identifier("a"), ThisExpression},
         {})

Init == InitWith({MenuBasic}, {"original", "generated"}, {"script", "module"}, MaxPicks)

Spec == Init /\ [][Next]_vars

\* Top-level declarations of every binding kind, two of them with scopes
MenuTopLevel ==
    Menu({FunctionDeclaration("f", <<>>), ClassDeclaration("C"),
          VariableDeclaration("const", <<PId("a")>>),
          VariableDeclaration("var", <<PId("b")>>),
          ImportDeclaration(<<ImportSpec("ImportSpecifier", "i", "x"),
                              ImportSpec("ImportNamespaceSpecifier", "n", "")>>)},
         {}, {})

InitTopLevel ==
    InitWith({MenuTopLevel}, {"original", "generated"}, {"script", "module"}, MaxPicks)

SpecTopLevel == InitTopLevel /\ [][Next]_vars

\* Uses before and after the declaration of their name
MenuOrder ==
    Menu({ExpressionStatement, FunctionDeclaration("f", <<>>),
          VariableDeclaration("var", <<PId("a")>>)},
         {CallExpression("0"), Identifier("f"), Identifier("a")},
         {})

InitOrder == InitWith({MenuOrder}, {"original"}, {"module"}, MaxPicks + 1)

SpecOrder == InitOrder /\ [][Next]_vars

\* Names that are declared more than once in a scope
MenuRedeclare ==
    Menu({VariableDeclaration("var", <<PId("f")>>), FunctionDeclaration("f", <<>>),
          FunctionDeclaration("g", <<PId("arguments")>>), ExpressionStatement},
         {Identifier("f")},
         {})

InitRedeclare == InitWith({MenuRedeclare}, {"original"}, {"script", "module"}, MaxPicks)

SpecRedeclare == InitRedeclare /\ [][Next]_vars

\* Sources that declare a name the global scope is seeded with
MenuSeeded ==
    Menu({ExpressionStatement, VariableDeclaration("var", <<PId("require")>>),
          VariableDeclaration("let", <<PId("require")>>),
          FunctionDeclaration("require", <<>>)},
         {CallExpression("0"), Identifier("require")},
         {})

InitSeeded ==
    InitWith({MenuSeeded}, {"original", "generated"}, {"script", "module"}, MaxPicks)

SpecSeeded == InitSeeded /\ [][Next]_vars

\* Two calls for the same source
InitTwice == InitWith({MenuBasic}, {"original", "generated"}, {"script", "module"}, MaxPicks)

SpecTwice == InitTwice /\ [][NextTwice]_vars

\* Declarations in functions, blocks and catch clauses
MenuHoist ==
    Menu({FunctionDeclaration("f", <<PId("a")>>), BlockStatement,
          TryStatement(<<PId("e")>>),
          VariableDeclaration("var", <<PId("a")>>),
          VariableDeclaration("let", <<PId("b")>>)},
         {}, {})

InitHoist == InitWith({MenuHoist}, {"original"}, {"script", "module"}, MaxPicks - 1)

SpecHoist == InitHoist /\ [][Next]_vars

\* Named function expressions and references to their name
MenuFunctionExpression ==
    Menu({ExpressionStatement, VariableDeclaration("let", <<PId("f")>>)},
         {FunctionExpression("f", <<>>), FunctionExpression("f", <<PId("f")>>),
          Identifier("f")},
         {})

InitFunctionExpression ==
    InitWith({MenuFunctionExpression}, {"original"}, {"module"}, MaxPicks + 2)

SpecFunctionExpression == InitFunctionExpression /\ [][Next]_vars

\* this in functions, arrow functions and class fields
MenuThis ==
    Menu({ExpressionStatement, ClassDeclaration("A")},
         {ArrowFunctionExpression("expression", <<>>), FunctionExpression("", <<>>),
          ThisExpression, CallExpression("0")},
         {ClassProperty("x", "value")})

InitThis == InitWith({MenuThis}, {"original"}, {"module"}, MaxPicks + 1)

SpecThis == InitThis /\ [][Next]_vars

\* Blocks with and without lexical declarations
MenuBlock ==
    Menu({BlockStatement, FunctionDeclaration("f", <<>>), ClassDeclaration("C"),
          VariableDeclaration("const", <<PId("a")>>),
          VariableDeclaration("var", <<PId("b")>>)},
         {}, {})

InitBlock == InitWith({MenuBlock}, {"original"}, {"module"}, MaxPicks - 1)

SpecBlock == InitBlock /\ [][Next]_vars

\* Loops with let, const and var header declarations
MenuFor ==
    Menu({ForStatement("let", <<PId("i")>>), ForStatement("var", <<PId("v")>>),
          ForOfStatement("const", <<PId("i")>>), ForInStatement("var", <<PId("i")>>),
          FunctionDeclaration("f", <<>>)},
         {NumericLiteral}, {})

InitFor == InitWith({MenuFor}, {"original"}, {"module", "script"}, MaxPicks)

SpecFor == InitFor /\ [][Next]_vars

\* Every construct that pushes a scope
MenuTree ==
    Menu({FunctionDeclaration("f", <<PId("a")>>), ForStatement("let", <<PId("i")>>),
          TryStatement(<<PId("e")>>), ClassDeclaration("C"),
          VariableDeclaration("const", <<PId("a")>>)},
         {FunctionExpression("g", <<>>), NumericLiteral},
         {ClassProperty("x", "value"), ClassMethod("m")})

InitTree == InitWith({MenuTree}, {"original"}, {"script", "module"}, MaxPicks - 1)

SpecTree == InitTree /\ [][Next]_vars

\* (0, require.method)() and its variations
MenuComma ==
    Menu({ExpressionStatement},
         {CallExpression("0"), CallExpression("1"), SequenceExpression("2"),
          SequenceExpression("3"), SequenceExpression("rev"),
          MemberExpression(FALSE, "", "method"), Identifier("require")},
         {})

\* Object(module).y and its variations
MenuObject ==
    Menu({ExpressionStatement},
         {CallExpression("0"), CallExpression("1"), MemberExpression(FALSE, "", "y"),
          Identifier("Object"), Identifier("module")},
         {})

\* exports.b.c, exports["s"] and exports[k]
MenuMembers ==
    Menu({ExpressionStatement},
         {MemberExpression(FALSE, "", "b"), MemberExpression(FALSE, "", "c"),
          MemberExpression(TRUE, "StringLiteral", "s"),
          MemberExpression(TRUE, "Identifier", "k"), Identifier("exports")},
         {})

\* The references are to names the global scope is seeded with
InitMeta ==
    InitWith({MenuComma, MenuObject, MenuMembers}, {"original"}, {"module"}, MaxPicks + 1)

SpecMeta == InitMeta /\ [][Next]_vars

\* Member chains only, two statements long
InitMembers == InitWith({MenuMembers}, {"original"}, {"module"}, MaxPicks + 3)

SpecMembers == InitMembers /\ [][Next]_vars

\* function f(a) { let b = a; return b + this.x; } and its parts
MenuScenario ==
    Menu({FunctionDeclaration("f", <<PId("a")>>),
          VariableDeclaration("let", <<PId("b")>>), ReturnStatement},
         {Identifier("a"), Identifier("b"), BinaryExpression,
          MemberExpression(FALSE, "", "x"), ThisExpression},
         {})

InitScenario == InitWith({MenuScenario}, {"original"}, {"module"}, MaxPicks + 4)

SpecScenario == InitScenario /\ [][Next]_vars

\* module.exports = {} and its parts, and a top-level var
MenuCommonJS ==
    Menu({ExpressionStatement, VariableDeclaration("var", <<PId("a")>>)},
         {AssignmentExpression, MemberExpression(FALSE, "", "exports"),
          Identifier("module"), ObjectExpression},
         {})

InitCommonJS ==
    InitWith({MenuCommonJS}, {"original", "generated"}, {"script", "module"}, MaxPicks + 1)

SpecCommonJS == InitCommonJS /\ [][Next]_vars

--------------------------------------------------------------------------
\* Vocabulary of the properties

\* Scope s is scope `from` or one of its ancestors
RECURSIVE OnChain(_, _, _)
OnChain(scs, s, from) ==
    IF from = 0 THEN FALSE
    ELSE IF from = s THEN TRUE
    ELSE OnChain(scs, s, scs[from].parent)

\* The scopes from `from` outwards to the root
RECURSIVE ChainOf(_, _)
ChainOf(scs, from) ==
    IF from = 0 THEN <<>> ELSE <<from>> \o ChainOf(scs, scs[from].parent)

\* The first scope of a chain that satisfies P; 0 if none does
FirstOf(scs, chain, P(_)) ==
    IF \E i \in 1..Len(chain) : P(scs[chain[i]])
    THEN chain[CHOOSE i \in 1..Len(chain) :
                 P(scs[chain[i]]) /\ \A j \in 1..(i - 1) : ~P(scs[chain[j]])]
    ELSE 0

\* The node a scope was pushed for (the anchor of the end of its range)
NodeOfScope(sc) == sc.loc.end.line[2]

\* The scopes named displayName that were pushed for node id
ScopesOf(displayName, id) ==
    {s \in 1..Len(scopes) :
       scopes[s].displayName = displayName /\ NodeOfScope(scopes[s]) = id}

\* An Exit step is about to be taken
AtExit == pc = "traverse" /\ NextNode = 0

\* An Enter step is about to be taken
AtEnter == pc \in {"ready", "traverse"} /\ NextNode # 0

--------------------------------------------------------------------------
\* C1: push/pop discipline.  For every node, the scope active after its exit
\* handler is the scope that was active when its enter handler began,
\* however many scopes enter pushed; the unsynchronized-pop failure is
\* never raised; after the traversal the active scope is the lexical global
\* scope and the scope stack is empty.
C1_PushPopDiscipline ==
    /\ [](pc # "Assertion failure - unsynchronized pop")
    /\ [](pc \in {"traversed", "done"} => scope = 2 /\ scopeStack = <<>>)
    /\ [][AtExit => scope' = cursor[Len(cursor)].entry]_vars

\* A named function expression (two scopes pushed) has been left: its
\* Function Expression scope exists and is no longer around the active scope
C1_Witness ==
    /\ pc = "traverse"
    /\ \E s \in 1..Len(scopes) :
         /\ scopes[s].displayName = "Function Expression"
         /\ Len(scopes[s].children) = 1
         /\ ~OnChain(scopes, s, scope)

--------------------------------------------------------------------------
\* C2: when the module scope is collapsed

\* Some seeded binding of the global scope has a reference
SeededReferenced(rootScope) ==
    \E name \in GlobalNames : Len(rootScope.bindings[name].refs) > 0

\* The display names of the scopes of an output tree
RECURSIVE DisplayNames(_)
DisplayNames(parsed) ==
    UNION {{parsed[i].displayName} \cup DisplayNames(parsed[i].children)
             : i \in 1..Len(parsed)}

\* The source is exactly  module.exports = {}
IsModuleExportsSource ==
    /\ Len(nodes) = 8
    /\ nodes[2].kids = <<3>>
    /\ nodes[3].type = "ExpressionStatement" /\ nodes[3].kids = <<4>>
    /\ nodes[4].type = "AssignmentExpression" /\ nodes[4].kids = <<5, 6>>
    /\ nodes[5].type = "MemberExpression" /\ ~nodes[5].computed /\ nodes[5].kids = <<7, 8>>
    /\ nodes[6].type = "ObjectExpression"
    /\ nodes[7].type = "Identifier" /\ nodes[7].name = "module"
    /\ nodes[8].type = "Identifier" /\ nodes[8].name = "exports"

\* The scenario: that source, of type script, not generated, parsed
ModuleExportsParsed ==
    /\ pc = "done"
    /\ IsModuleExportsSource
    /\ sourceType = "script"
    /\ ~IsGeneratedId(sourceId)

\* The global scope holds a var binding `module` with one use reference
GlobalModuleUsedOnce ==
    /\ output.scopes[1].type = "object"
    /\ output.scopes[1].bindings["module"].type = "var"
    /\ Len(output.scopes[1].bindings["module"].refs) = 1
    /\ output.scopes[1].bindings["module"].refs[1].type = "ref"

--------------------------------------------------------------------------
\* C3: what the collapse does

\* The scopes reachable from s through children
RECURSIVE Descendants(_, _)
Descendants(scs, s) ==
    {s} \cup UNION {Descendants(scs, scs[s].children[i]) : i \in 1..Len(scs[s].children)}

\* C3: whenever the collapse is performed, afterwards every binding of the
\* module scope is in the lexical global scope's registry if its kind is let
\* or const and in the global object scope's otherwise; the module scope is
\* not reachable from the root; its former children are, in the same order,
\* the children of the lexical global scope, each with that scope as parent.
C3_CollapseEffect ==
    [][pc = "traversed" /\ stripped' =>
         LET lexical == scopes[1].children[1]
             module == scopes[lexical].children[1]
             moved == scopes[module].bindings
         IN /\ pc' = "done"
            /\ \A name \in DOMAIN moved :
                 LET target == IF moved[name].type \in {"let", "const"} THEN lexical ELSE 1
                 IN /\ name \in DOMAIN scopes'[target].bindings
                    /\ scopes'[target].bindings[name] = moved[name]
            /\ module \notin Descendants(scopes', 1)
            /\ "Module" \notin DisplayNames(output'.scopes)
            /\ scopes'[1].children = <<lexical>>
            /\ scopes'[lexical].children = scopes[module].children
            /\ \A i \in 1..Len(scopes[module].children) :
                 scopes'[scopes[module].children[i]].parent = lexical]_vars

\* A collapse that moved a let/const binding, a binding of another kind
\* than the seeded and implicit ones, and two child scopes
C3_Witness ==
    /\ pc = "done" /\ stripped
    /\ DOMAIN scopes[2].bindings # {}
    /\ DOMAIN scopes[1].bindings # GlobalNames \cup {"this"}
    /\ Len(scopes[2].children) = 2

--------------------------------------------------------------------------
\* C4: where var and function-declaration bindings are registered

\* The names a pattern declares
RECURSIVE PatNames(_)
PatNames(pat) ==
    IF pat.ptype = "Identifier" THEN {pat.name}
    ELSE UNION {PatNames(pat.elems[i]) : i \in 1..Len(pat.elems)}

PatsNames(pats) == UNION {PatNames(pats[i]) : i \in 1..Len(pats)}

\* The reference is the declaration reference of the id of node id
IsIdDeclOf(ref, id) ==
    ref.type = "decl" /\ ref.start.line = <<"id", id, <<>>, "start">>

\* The reference is a declaration reference made by declaring node id
IsDeclaredBy(ref, id) ==
    ref.type = "decl" /\ ref.declaration.start.line = <<"node", id, <<>>, "start">>

\* The binding holds the declaration reference of a function declaration
HoldsFunctionDeclaration(b) ==
    \E i \in 1..Len(b.refs) :
       /\ b.refs[i].type = "decl"
       /\ b.refs[i].start.line[1] = "id"
       /\ nodes[b.refs[i].start.line[2]].type = "FunctionDeclaration"

IsVarScopeType(sc) == sc.type \in {"function", "module"}

\* The nearest function or module scope around (and including) scope s
NearestVarScope(scs, s) == FirstOf(scs, ChainOf(scs, s), IsVarScopeType)

\* C4 as stated: no block scope holds a var-kind binding or the binding of a
\* function declaration (they are all on the nearest enclosing function or
\* module scope), catch parameters and functions nested in blocks included.
C4_Original ==
    \A s \in 1..Len(scopes) :
       scopes[s].type = "block" =>
          \A name \in DOMAIN scopes[s].bindings :
             /\ scopes[s].bindings[name].type # "var"
             /\ ~HoldsFunctionDeclaration(scopes[s].bindings[name])

\* In every state: only a Catch scope, among the block scopes, holds var-kind
\* bindings, and those are the clause's parameters; a function declaration's
\* binding is var on a function, module or (after the collapse) object
\* scope, or let on a block scope
C4_StateInvariant ==
    \A s \in 1..Len(scopes) :
       \A name \in DOMAIN scopes[s].bindings :
          LET b == scopes[s].bindings[name]
          IN /\ (scopes[s].type = "block" /\ b.type = "var") =>
                   /\ scopes[s].displayName = "Catch"
                   /\ IsDeclaredBy(b.refs[1], NodeOfScope(scopes[s]))
             /\ HoldsFunctionDeclaration(b) =>
                   \/ b.type = "var" /\ scopes[s].type \in {"function", "module", "object"}
                   \/ b.type = "let" /\ scopes[s].type = "block"

\* Entering a var declaration registers its names on the nearest function
\* or module scope around the active scope, and touches no other scope
C4_VarDeclarationStep ==
    (AtEnter /\ nodes[NextNode].type = "VariableDeclaration" /\ nodes[NextNode].kind = "var") =>
       LET target == NearestVarScope(scopes, scope)
       IN /\ target # 0
          /\ Len(scopes') = Len(scopes)
          /\ \A s \in 1..Len(scopes) : s # target => scopes'[s] = scopes[s]
          /\ \A name \in PatsNames(nodes[NextNode].pats) :
               /\ name \in DOMAIN scopes'[target].bindings
               /\ \E i \in 1..Len(scopes'[target].bindings[name].refs) :
                    IsDeclaredBy(scopes'[target].bindings[name].refs[i], NextNode)

\* Entering a function declaration registers its name on the active scope:
\* var if that is a function or module scope, let otherwise
C4_FunctionDeclarationStep ==
    (AtEnter /\ nodes[NextNode].type = "FunctionDeclaration") =>
       /\ nodes[NextNode].name \in DOMAIN scopes'[scope].bindings
       /\ IsIdDeclOf(scopes'[scope].bindings[nodes[NextNode].name].refs[1], NextNode)
       /\ scopes'[scope].bindings[nodes[NextNode].name].type =
             IF IsVarScopeType(scopes[scope]) THEN "var" ELSE "let"

\* C4 amended: among the block scopes only a Catch scope holds var-kind
\* bindings, during the traversal and after the collapse: the names of a var
\* declaration are registered on the nearest enclosing function or module
\* scope; a catch parameter is registered as var on the clause's own Catch
\* block scope; a function declaration is registered on the scope active at
\* the declaration, as var if that is a function or module scope and as let
\* if it is a block scope.
C4_HoistingTargets ==
    /\ []C4_StateInvariant
    /\ [][C4_VarDeclarationStep]_vars
    /\ [][C4_FunctionDeclarationStep]_vars

\* A var declaration directly in a catch body has been entered
C4_Witness ==
    /\ pc = "traverse"
    /\ nodes[cursor[Len(cursor)].node].type = "VariableDeclaration"
    /\ nodes[cursor[Len(cursor)].node].kind = "var"
    /\ scopes[scope].displayName = "Catch"
    /\ "a" \in DOMAIN scopes[NearestVarScope(scopes, scope)].bindings

--------------------------------------------------------------------------
\* C5: the kind and scope of a function declaration's binding

\* Node id is the body block of a function
IsFunctionBodyBlock(id) ==
    /\ nodes[id].type = "BlockStatement"
    /\ nodes[id].key = "body"
    /\ IsFunction(nodes[nodes[id].parent])

\* Binding `name` of scope s holds the declaration reference of node id
HoldsDeclOf(s, name, id) ==
    \E i \in 1..Len(scopes[s].bindings[name].refs) :
       IsIdDeclOf(scopes[s].bindings[name].refs[i], id)

\* The claim for one holder of the binding of function declaration id
FunctionDeclarationPlaced(s, name, id) ==
    LET p == nodes[id].parent
        b == scopes[s].bindings[name]
    IN IF nodes[p].type = "Program"
       THEN b.type = "var" /\ scopes[s].type \in {"module", "object"}
       ELSE IF IsFunctionBodyBlock(p)
       THEN /\ b.type = "var"
            /\ scopes[s].type = "function"
            /\ NodeOfScope(scopes[s]) = nodes[p].parent
       ELSE /\ b.type = "let"
            /\ scopes[s].type = "block"
            /\ NodeOfScope(scopes[s]) = p

\* C5: a function declaration that is a direct statement of the program or
\* of a function body is registered as var on that module or function scope,
\* whatever else the body contains; one directly in a nested block is
\* registered as let on that block's scope.
C5_Original ==
    \A id \in 1..Len(nodes) :
       nodes[id].type = "FunctionDeclaration" =>
          \A s \in 1..Len(scopes) :
             \A name \in DOMAIN scopes[s].bindings :
                HoldsDeclOf(s, name, id) => FunctionDeclarationPlaced(s, name, id)

--------------------------------------------------------------------------
\* C6: the own name of a named function expression

\* Node a is a proper ancestor of node id
RECURSIVE IsAncestor(_, _)
IsAncestor(a, id) ==
    IF nodes[id].parent = 0 THEN FALSE
    ELSE nodes[id].parent = a \/ IsAncestor(a, nodes[id].parent)

\* The nearest function around node id; 0 if there is none
RECURSIVE FunctionAround(_)
FunctionAround(id) ==
    IF nodes[id].parent = 0 THEN 0
    ELSE IF IsFunction(nodes[nodes[id].parent]) THEN nodes[id].parent
    ELSE FunctionAround(nodes[id].parent)

\* Node d declares `name` for the whole of node owner (the function, block,
\* loop or clause whose scope the name belongs to)
DeclaresFor(d, name, owner) ==
    \/ /\ d = owner
       /\ IsFunction(nodes[d]) \/ nodes[d].type = "CatchClause"
       /\ name \in PatsNames(nodes[d].pats)
    \/ /\ nodes[d].type = "VariableDeclaration"
       /\ name \in PatsNames(nodes[d].pats)
       /\ owner = IF nodes[d].kind = "var" THEN FunctionAround(d) ELSE nodes[d].parent
    \/ /\ nodes[d].type \in {"FunctionDeclaration", "ClassDeclaration"}
       /\ nodes[d].name = name
       /\ owner = nodes[d].parent

\* Between function expression fe and the reference x inside it, a
\* parameter or declaration redeclares x's name, or an inner function or
\* class expression has that name
Shadowed(fe, x) ==
    \E owner \in 1..Len(nodes) :
       /\ owner = fe \/ IsAncestor(fe, owner)
       /\ IsAncestor(owner, x)
       /\ \/ \E d \in 1..Len(nodes) : DeclaresFor(d, nodes[x].name, owner)
          \/ /\ owner # fe
             /\ nodes[owner].type \in {"FunctionExpression", "ClassExpression"}
             /\ nodes[owner].name = nodes[x].name

IsNamedFunctionExpression(id) ==
    nodes[id].type = "FunctionExpression" /\ nodes[id].name # ""

\* Some reference of the binding is the use at node x
HasUseAt(b, x) ==
    \E i \in 1..Len(b.refs) :
       b.refs[i].type = "ref" /\ b.refs[i].start.line = <<"node", x, <<>>, "start">>

\* Every entered named function expression has exactly one 'Function
\* Expression' block scope; it holds only the const binding of the name,
\* whose first reference is the declaration, and its only child is the
\* function's scope; every use in that binding is a node inside the function
C6_Structure ==
    \A fe \in 1..Len(nodes) :
       (IsNamedFunctionExpression(fe) /\ nodes[fe].entered) =>
          /\ Cardinality(ScopesOf("Function Expression", fe)) = 1
          /\ \A s \in ScopesOf("Function Expression", fe) :
               /\ scopes[s].type = "block"
               /\ DOMAIN scopes[s].bindings = {nodes[fe].name}
               /\ scopes[s].bindings[nodes[fe].name].type = "const"
               /\ IsIdDeclOf(scopes[s].bindings[nodes[fe].name].refs[1], fe)
               /\ Len(scopes[s].children) = 1
               /\ scopes[scopes[s].children[1]].type = "function"
               /\ scopes[scopes[s].children[1]].parent = s
               /\ NodeOfScope(scopes[scopes[s].children[1]]) = fe
               /\ \A i \in 2..Len(scopes[s].bindings[nodes[fe].name].refs) :
                    LET ref == scopes[s].bindings[nodes[fe].name].refs[i]
                    IN ref.type = "ref" /\ IsAncestor(fe, ref.start.line[2])

\* After the traversal, every reference to the name inside the function
\* that is not shadowed is among the uses of the const binding
C6_BodyReferences ==
    pc \in {"traversed", "done"} =>
       \A fe \in 1..Len(nodes) : \A x \in 1..Len(nodes) :
          (/\ IsNamedFunctionExpression(fe)
           /\ nodes[x].type = "Identifier"
           /\ nodes[x].name = nodes[fe].name
           /\ IsReferenced(nodes, x, nodes[x].parent)
           /\ IsAncestor(fe, x)
           /\ ~Shadowed(fe, x)) =>
             \A s \in ScopesOf("Function Expression", fe) :
                HasUseAt(scopes[s].bindings[nodes[fe].name], x)

\* A step changes the bindings of a 'Function Expression' scope only by
\* entering a node inside the function expression
C6_OutsideSteps ==
    \A s \in 1..Len(scopes) :
       (scopes[s].displayName = "Function Expression"
          /\ scopes'[s].bindings # scopes[s].bindings) =>
             /\ AtEnter
             /\ \E i \in 1..Len(cursor) : cursor[i].node = NodeOfScope(scopes[s])

\* C6: a named function expression's name is a const binding of an
\* intermediate 'Function Expression' block scope around the function scope;
\* an unshadowed reference to the name in the body is attached to it, and no
\* reference visited outside the function expression's node is.
C6_FunctionExpressionName ==
    /\ []C6_Structure
    /\ []C6_BodyReferences
    /\ [][C6_OutsideSteps]_vars

\* (function f() { f }) next to a reference to f outside it: the const
\* binding holds exactly the declaration and the use in the body
C6_Witness ==
    /\ pc = "done"
    /\ \E fe \in 1..Len(nodes) : \E x \in 1..Len(nodes) : \E y \in 1..Len(nodes) :
         /\ IsNamedFunctionExpression(fe)
         /\ nodes[x].type = "Identifier" /\ nodes[x].entered
         /\ IsAncestor(fe, x) /\ ~Shadowed(fe, x)
         /\ nodes[y].type = "Identifier" /\ nodes[y].entered /\ ~IsAncestor(fe, y)
         /\ \A s \in ScopesOf("Function Expression", fe) :
              Len(scopes[s].bindings["f"].refs) = 2

--------------------------------------------------------------------------
\* C7: implicit this and arguments

\* The function scope pushed for an arrow function
IsArrowScope(sc) ==
    /\ sc.type = "function"
    /\ sc.displayName # "Class Field"
    /\ nodes[NodeOfScope(sc)].type = "ArrowFunctionExpression"

\* A module scope, or a function-typed scope that is not an arrow function's
\* (a non-arrow function's scope or a Class Field scope)
IsThisScope(sc) == sc.type \in {"function", "module"} /\ ~IsArrowScope(sc)

\* Entering a function creates its function scope last: it holds this and
\* arguments, implicit and without references, unless the function is an
\* arrow function, whose scope holds neither
C7_FunctionStep ==
    (AtEnter /\ IsFunction(nodes[NextNode])) =>
       LET fs == scopes'[Len(scopes')]
       IN /\ Len(scopes') > Len(scopes)
          /\ scope' = Len(scopes')
          /\ fs.type = "function" /\ NodeOfScope(fs) = NextNode
          /\ IF nodes[NextNode].type = "ArrowFunctionExpression"
             THEN "this" \notin DOMAIN fs.bindings /\ "arguments" \notin DOMAIN fs.bindings
             ELSE /\ "this" \in DOMAIN fs.bindings
                  /\ "arguments" \in DOMAIN fs.bindings
                  /\ fs.bindings["this"] = [type |-> "implicit", refs |-> <<>>]
                  /\ fs.bindings["arguments"] = [type |-> "implicit", refs |-> <<>>]

\* No arrow function's scope ever holds this or arguments
C7_ArrowScopes ==
    \A s \in 1..Len(scopes) :
       IsArrowScope(scopes[s]) =>
          "this" \notin DOMAIN scopes[s].bindings /\ "arguments" \notin DOMAIN scopes[s].bindings

\* Entering a this expression adds one use to the this binding of the
\* nearest module, non-arrow function or Class Field scope, and changes no
\* other scope
C7_ThisStep ==
    (AtEnter /\ nodes[NextNode].type = "ThisExpression") =>
       LET target == FirstOf(scopes, ChainOf(scopes, scope), IsThisScope)
       IN /\ target # 0
          /\ Len(scopes') = Len(scopes)
          /\ \A s \in 1..Len(scopes) : s # target => scopes'[s] = scopes[s]
          /\ Len(scopes'[target].bindings["this"].refs) =
                Len(scopes[target].bindings["this"].refs) + 1
          /\ HasUseAt(scopes'[target].bindings["this"], NextNode)

\* C7: the function scope of a non-arrow function is created with implicit
\* this and arguments bindings without references, that of an arrow
\* function with neither; a this expression is attached to the this binding
\* of the nearest non-arrow function, Class Field or module scope, never to
\* an arrow function's scope.
C7_ImplicitBindings ==
    /\ [][C7_FunctionStep]_vars
    /\ []C7_ArrowScopes
    /\ [][C7_ThisStep]_vars

\* A this expression in an arrow function was attached to the scope of the
\* function expression around the arrow
C7_Witness ==
    \E s \in 1..Len(scopes) : \E a \in 1..Len(scopes) :
       /\ scopes[s].type = "function"
       /\ nodes[NodeOfScope(scopes[s])].type = "FunctionExpression"
       /\ Len(scopes[s].bindings["this"].refs) = 1
       /\ IsArrowScope(scopes[a])
       /\ scopes[a].parent = s
       /\ IsAncestor(NodeOfScope(scopes[a]), scopes[s].bindings["this"].refs[1].start.line[2])

--------------------------------------------------------------------------
\* C8: the scope of a class field's initializer

\* Node id is the initializer of a class field
IsFieldInitializer(id) ==
    /\ nodes[id].parent # 0
    /\ nodes[nodes[id].parent].type = "ClassProperty"
    /\ nodes[id].key = "value"

\* Only arrow functions lie between node v (inclusive) and node x
RECURSIVE OnlyArrowsBetween(_, _)
OnlyArrowsBetween(v, x) ==
    IF x = v THEN TRUE
    ELSE LET p == nodes[x].parent
         IN /\ p # 0
            /\ ~(IsFunction(nodes[p]) /\ nodes[p].type # "ArrowFunctionExpression")
            /\ IF p = v THEN TRUE ELSE OnlyArrowsBetween(v, p)

\* C8: for every class field with an initializer, whatever expression the
\* initializer is, entering it pushes a function-typed 'Class Field' scope
\* seeded with implicit this and arguments, and the this expressions of the
\* initializer are attached to that scope's binding.
C8_Original ==
    \A v \in 1..Len(nodes) :
       (IsFieldInitializer(v) /\ nodes[v].entered) =>
          /\ Cardinality(ScopesOf("Class Field", v)) = 1
          /\ \A s \in ScopesOf("Class Field", v) :
               /\ scopes[s].type = "function"
               /\ {"this", "arguments"} \subseteq DOMAIN scopes[s].bindings
               /\ scopes[s].bindings["this"].type = "implicit"
               /\ scopes[s].bindings["arguments"].type = "implicit"
               /\ \A x \in 1..Len(nodes) :
                    (/\ nodes[x].type = "ThisExpression"
                     /\ nodes[x].entered
                     /\ x = v \/ IsAncestor(v, x)
                     /\ OnlyArrowsBetween(v, x)) =>
                        HasUseAt(scopes[s].bindings["this"], x)

--------------------------------------------------------------------------
\* C9: which block statements push a scope

\* The block (whose children are drawn) directly contains a let/const or
\* class declaration, or, not being a function's body, a function declaration
DirectlyLexical(ns, id) ==
    \E i \in 1..Len(ns[id].kids) :
       LET child == ns[ns[id].kids[i]]
       IN \/ child.type = "VariableDeclaration" /\ child.kind \in {"let", "const"}
          \/ child.type = "ClassDeclaration"
          \/ /\ child.type = "FunctionDeclaration"
             /\ ~(IsFunction(ns[ns[id].parent]) /\ ns[id].key = "body")

\* Entering a block statement pushes one new 'Block' scope under the active
\* scope if the block is directly lexical, and otherwise leaves the scopes
\* and the active scope as they are
C9_BlockStep ==
    (AtEnter /\ nodes[NextNode].type = "BlockStatement") =>
       IF DirectlyLexical(nodes', NextNode)
       THEN /\ Len(scopes') = Len(scopes) + 1
            /\ scope' = Len(scopes')
            /\ scopes'[scope'].type = "block"
            /\ scopes'[scope'].displayName = "Block"
            /\ scopes'[scope'].parent = scope
            /\ scopes'[scope'].bindings = EmptyBindings
            /\ NodeOfScope(scopes'[scope']) = NextNode
       ELSE scopes' = scopes /\ scope' = scope

\* Between the children of an open block that pushed no scope, the active
\* scope is the one that was active when the block was entered
C9_NoScopeBlocks ==
    (pc = "traverse" /\ nodes[cursor[Len(cursor)].node].type = "BlockStatement") =>
       IF ScopesOf("Block", cursor[Len(cursor)].node) = {}
       THEN scope = cursor[Len(cursor)].entry
       ELSE scope \in ScopesOf("Block", cursor[Len(cursor)].node)

\* C9: entering a block statement pushes a new block scope if and only if
\* the block directly contains a let/const declaration, a class declaration
\* or (unless the block is a function's body) a function declaration; a
\* block with none of these introduces no scope, so what its children
\* register on the active scope lands in the scope that was already active.
C9_BlockScopes ==
    /\ [][C9_BlockStep]_vars
    /\ []C9_NoScopeBlocks

\* A function body that holds a function declaration was entered without a
\* scope of its own, and the nested function's name went to the function scope
C9_Witness ==
    \E b \in 1..Len(nodes) : \E g \in 1..Len(nodes) :
       /\ IsFunctionBodyBlock(b) /\ nodes[b].entered
       /\ nodes[g].type = "FunctionDeclaration" /\ nodes[g].parent = b /\ nodes[g].entered
       /\ ScopesOf("Block", b) = {}
       /\ \E s \in 1..Len(scopes) :
            /\ scopes[s].type = "function" /\ NodeOfScope(scopes[s]) = nodes[b].parent
            /\ "f" \in DOMAIN scopes[s].bindings
            /\ HoldsDeclOf(s, "f", g)

--------------------------------------------------------------------------
\* C10: the scope of a loop header

\* The declaration in the header of loop id; 0 if there is none
HeaderOfLoop(id) ==
    IF Len(nodes[id].kids) > 0 /\ nodes[nodes[id].kids[1]].key \in {"init", "left"}
          /\ nodes[nodes[id].kids[1]].type = "VariableDeclaration"
    THEN nodes[id].kids[1]
    ELSE 0

IsLoop(id) == nodes[id].type \in {"ForStatement", "ForOfStatement", "ForInStatement"}

\* Some binding of scope s holds a reference declared by node d
ScopeDeclares(s, d) ==
    \E name \in DOMAIN scopes[s].bindings :
       \E i \in 1..Len(scopes[s].bindings[name].refs) :
          IsDeclaredBy(scopes[s].bindings[name].refs[i], d)

\* An entered loop with a let/const header has exactly one 'For' scope, from
\* the declaration's start to the loop's end; once the declaration is
\* entered, its names are in that scope with the declaration's kind, and no
\* other scope holds them.  A loop with a var header has no 'For' scope
C10_ForScopes ==
    \A id \in 1..Len(nodes) :
       (IsLoop(id) /\ nodes[id].entered) =>
          LET d == HeaderOfLoop(id)
          IN IF d # 0 /\ nodes[d].kind \in {"let", "const"}
             THEN /\ Cardinality(ScopesOf("For", id)) = 1
                  /\ \A s \in ScopesOf("For", id) :
                       /\ scopes[s].type = "block"
                       /\ scopes[s].loc.start.line = <<"node", d, <<>>, "start">>
                       /\ scopes[s].loc.start.line # NodeLoc(id).start.line
                       /\ scopes[s].loc.end.line = <<"node", id, <<>>, "end">>
                       /\ nodes[d].entered =>
                            /\ \A name \in PatsNames(nodes[d].pats) :
                                 /\ name \in DOMAIN scopes[s].bindings
                                 /\ scopes[s].bindings[name].type = nodes[d].kind
                                 /\ IsDeclaredBy(scopes[s].bindings[name].refs[1], d)
                            /\ \A t \in 1..Len(scopes) : t # s => ~ScopeDeclares(t, d)
             ELSE ScopesOf("For", id) = {}

\* Entering the var declaration of a loop header registers its names on the
\* nearest function or module scope around the active scope only
C10_VarHeaderStep ==
    (/\ AtEnter
     /\ nodes[NextNode].type = "VariableDeclaration"
     /\ nodes[NextNode].kind = "var"
     /\ nodes[NextNode].key \in {"init", "left"}) =>
       LET target == NearestVarScope(scopes, scope)
       IN /\ target # 0
          /\ Len(scopes') = Len(scopes)
          /\ \A s \in 1..Len(scopes) : s # target => scopes'[s] = scopes[s]
          /\ \A name \in PatsNames(nodes[NextNode].pats) :
               /\ name \in DOMAIN scopes'[target].bindings
               /\ \E i \in 1..Len(scopes'[target].bindings[name].refs) :
                    IsDeclaredBy(scopes'[target].bindings[name].refs[i], NextNode)

\* C10: a for / for-in / for-of loop with a let/const header gets exactly one
\* 'For' block scope, from the declaration's start (not the loop's) to the
\* loop's end, and the header's names are registered with the declaration's
\* kind in that scope and in no other; a var header creates no For scope and
\* is registered on the nearest function or module scope.
C10_LoopHeaders ==
    /\ []C10_ForScopes
    /\ [][C10_VarHeaderStep]_vars

\* A let loop nested in a function next to a var loop: i is in the For scope,
\* v on the function scope
C10_Witness ==
    \E s \in 1..Len(scopes) : \E t \in 1..Len(scopes) :
       /\ scopes[s].displayName = "For"
       /\ "i" \in DOMAIN scopes[s].bindings
       /\ scopes[s].bindings["i"].type = "let"
       /\ scopes[t].type = "function"
       /\ scopes[s].parent = t
       /\ "v" \in DOMAIN scopes[t].bindings
       /\ scopes[t].bindings["v"].type = "var"

--------------------------------------------------------------------------
\* C11: the shape of the scope tree

\* The position of node id in the AST: the child indexes from the root
RECURSIVE PathOf(_)
PathOf(id) ==
    IF nodes[id].parent = 0 THEN <<>>
    ELSE LET p == nodes[id].parent
         IN Append(PathOf(p), CHOOSE i \in 1..Len(nodes[p].kids) : nodes[p].kids[i] = id)

\* Lexicographic order, a prefix first
RECURSIVE LexLeq(_, _)
LexLeq(p, q) ==
    IF p = <<>> THEN TRUE
    ELSE IF q = <<>> THEN FALSE
    ELSE IF Head(p) # Head(q) THEN Head(p) < Head(q)
    ELSE LexLeq(Tail(p), Tail(q))

\* Where a start position lies in the text: a node starts before its
\* children and before its later siblings; a function's parameters lie
\* between its start and its other children
StartKey(pos) ==
    IF pos.line[1] = "pat" THEN Append(PathOf(pos.line[2]), 0) ELSE PathOf(pos.line[2])

StartLeq(a, b) == LexLeq(StartKey(a), StartKey(b))

\* Ends of nodes: a node ends before its ancestors do
EndLeq(a, b) == a.line[2] = b.line[2] \/ IsAncestor(b.line[2], a.line[2])

RangeWithin(inner, outer) ==
    /\ inner.start.line[4] = "start" /\ outer.start.line[4] = "start"
    /\ inner.end.line[4] = "end" /\ outer.end.line[4] = "end"
    /\ StartLeq(outer.start, inner.start)
    /\ EndLeq(inner.end, outer.end)

\* The scopes of the tree: all that were created, the module scope excepted
\* once it has been collapsed
TreeScopes == {s \in 1..Len(scopes) : ~(stripped /\ scopes[s].type = "module")}

\* Following the parents from s reaches the root in at most n steps
RECURSIVE ClimbsToRoot(_, _)
ClimbsToRoot(s, n) ==
    IF s = 1 THEN TRUE
    ELSE IF n = 0 \/ s = 0 THEN FALSE
    ELSE ClimbsToRoot(scopes[s].parent, n - 1)

\* How often s is listed among the children of p
TimesListed(s, p) ==
    Cardinality({i \in 1..Len(scopes[p].children) : scopes[p].children[i] = s})

\* C11: in every state, during the traversal and after the collapse, every
\* scope but the root has one parent, is listed once among the children of
\* that parent and of no other scope, reaches the root by following the
\* parents, and has a range within its parent's range.
C11_Tree ==
    scopes # <<>> =>
       /\ scopes[1].parent = 0
       /\ TreeScopes = Descendants(scopes, 1)
       /\ \A s \in TreeScopes \ {1} :
            /\ scopes[s].parent \in TreeScopes
            /\ ClimbsToRoot(s, Len(scopes))
            /\ \A p \in TreeScopes :
                 TimesListed(s, p) = IF p = scopes[s].parent THEN 1 ELSE 0
            /\ RangeWithin(scopes[s].loc, scopes[scopes[s].parent].loc)

\* After a collapse the lexical global scope holds a For scope, whose range
\* starts at the header's declaration, and a function scope, whose range
\* starts at the first parameter
C11_Witness ==
    /\ pc = "done" /\ stripped
    /\ \E s \in TreeScopes : \E t \in TreeScopes :
         /\ scopes[s].parent = 2 /\ scopes[s].displayName = "For"
         /\ scopes[t].parent = 2 /\ scopes[t].type = "function"
         /\ scopes[t].loc.start.line[1] = "pat"

--------------------------------------------------------------------------
\* C12: references to names no scope holds

\* The name the node refers to when it is entered; "" if it is no reference
ReferredName(ns, id) ==
    IF ns[id].type = "ThisExpression" THEN "this"
    ELSE IF ns[id].type = "Identifier" /\ IsReferenced(ns, id, ns[id].parent)
    THEN ns[id].name
    ELSE ""

\* The registries (the names and kinds of every scope) are the same in
\* scs and in scs2
SameRegistries(scs, scs2) ==
    /\ Len(scs2) = Len(scs)
    /\ \A s \in 1..Len(scs) :
         /\ DOMAIN scs2[s].bindings = DOMAIN scs[s].bindings
         /\ \A name \in DOMAIN scs[s].bindings :
              scs2[s].bindings[name].type = scs[s].bindings[name].type

\* Entering a reference whose name no scope from the active one to the root
\* holds changes nothing and the traversal goes on; otherwise the innermost
\* scope that holds the name gets one more reference, a use at the node,
\* and nothing else changes
C12_ReferenceStep ==
    (AtEnter /\ ReferredName(nodes, NextNode) # "") =>
       LET name == ReferredName(nodes, NextNode)
           target == FirstOf(scopes, ChainOf(scopes, scope),
                             LAMBDA sc : name \in DOMAIN sc.bindings)
       IN /\ pc' = "traverse"
          /\ scope' = scope
          /\ IF target = 0
             THEN scopes' = scopes
             ELSE /\ SameRegistries(scopes, scopes')
                  /\ \A s \in 1..Len(scopes) : \A other \in DOMAIN scopes[s].bindings :
                       (s # target \/ other # name) =>
                          scopes'[s].bindings[other] = scopes[s].bindings[other]
                  /\ LET before == scopes[target].bindings[name].refs
                         after == scopes'[target].bindings[name].refs
                     IN /\ Len(after) = Len(before) + 1
                        /\ SubSeq(after, 1, Len(before)) = before
                        /\ after[Len(after)].type = "ref"
                        /\ after[Len(after)].start.line = <<"node", NextNode, <<>>, "start">>

\* C12: a reference whose name no scope on the path from the active scope
\* to the root holds is dropped: no reference list and no registry changes,
\* no error is raised and the traversal continues; otherwise exactly one use
\* reference is appended, to the entry of the innermost scope on that path
\* that holds the name.
C12_DroppedReferences == [][C12_ReferenceStep]_vars

\* Some binding holds a use at node x
UsedSomewhere(x) ==
    \E s \in 1..Len(scopes) : \E name \in DOMAIN scopes[s].bindings :
       HasUseAt(scopes[s].bindings[name], x)

\* The run ended with an identifier that was dropped and a reference that
\* was attached
C12_Witness ==
    /\ pc = "done"
    /\ \E x \in 1..Len(nodes) :
         nodes[x].type = "Identifier" /\ nodes[x].entered /\ ~UsedSomewhere(x)
    /\ \E y \in 1..Len(nodes) :
         nodes[y].type \in {"Identifier", "ThisExpression"} /\ UsedSomewhere(y)

--------------------------------------------------------------------------
\* C13: meta-binding chains

\* The k-th ancestor of node id (the node itself for k = 0); 0 beyond the root
RECURSIVE Up(_, _)
Up(id, k) ==
    IF id = 0 THEN 0
    ELSE IF k = 0 THEN id
    ELSE Up(nodes[id].parent, k - 1)

IsNumericFirst(p) == nodes[nodes[p].kids[1]].type = "NumericLiteral"

\* What wrapper the parent of node c is around c: the kind of link it
\* gives, "none" if it matches no pattern
LinkKind(c) ==
    LET p == nodes[c].parent
    IN IF c = 0 \/ p = 0 THEN "none"
       ELSE IF nodes[p].type = "SequenceExpression" /\ Len(nodes[p].kids) = 2
               /\ IsNumericFirst(p) /\ nodes[p].kids[2] = c
         THEN "inherit"
       ELSE IF nodes[p].type = "CallExpression" /\ Len(nodes[p].kids) = 2
               /\ nodes[p].kids[2] = c
               /\ nodes[nodes[p].kids[1]].type = "Identifier"
               /\ nodes[nodes[p].kids[1]].name = "Object"
         THEN "inherit"
       ELSE IF nodes[p].type = "MemberExpression" /\ nodes[p].kids[1] = c
               /\ (~nodes[p].computed \/ nodes[nodes[p].kids[2]].type = "StringLiteral")
         THEN "member"
       ELSE IF nodes[p].type = "CallExpression" /\ nodes[p].kids = <<c>>
         THEN "call"
       ELSE "none"

\* The use references recorded for node x
UseRefsAt(x) ==
    {ref \in UNION {UNION {{scopes[s].bindings[name].refs[i] :
                              i \in 1..Len(scopes[s].bindings[name].refs)}
                           : name \in DOMAIN scopes[s].bindings}
                    : s \in 1..Len(scopes)} :
       ref.type = "ref" /\ ref.start.line = <<"node", x, <<>>, "start">>}

\* The k-th link of every chain is the link of the k-th wrapper around the
\* reference, and the wrapper after the last link matches no pattern
C13_ChainFollowsAncestors ==
    \A x \in 1..Len(nodes) : \A ref \in UseRefsAt(x) :
       /\ \A k \in 1..Len(ref.meta) :
            /\ ref.meta[k].type = LinkKind(Up(x, k - 1))
            /\ ref.meta[k].end.line = <<"node", Up(x, k), <<>>, "end">>
            /\ ref.meta[k].type = "member" =>
                  ref.meta[k].property = nodes[nodes[Up(x, k)].kids[2]].name
       /\ LinkKind(Up(x, Len(ref.meta))) = "none"

\* x is the obj of (0, obj.method)()
IsCommaCallObject(x) ==
    LET member == Up(x, 1)
        comma == Up(x, 2)
        call == Up(x, 3)
    IN /\ call # 0
       /\ nodes[member].type = "MemberExpression" /\ ~nodes[member].computed
       /\ nodes[member].kids[1] = x /\ nodes[nodes[member].kids[2]].name = "method"
       /\ nodes[comma].type = "SequenceExpression" /\ Len(nodes[comma].kids) = 2
       /\ IsNumericFirst(comma) /\ nodes[comma].kids[2] = member
       /\ nodes[call].type = "CallExpression" /\ nodes[call].kids = <<comma>>

\* x is the x of Object(x).y
IsObjectArgument(x) ==
    LET call == Up(x, 1)
        member == Up(x, 2)
    IN /\ member # 0
       /\ nodes[call].type = "CallExpression" /\ Len(nodes[call].kids) = 2
       /\ nodes[call].kids[2] = x
       /\ nodes[nodes[call].kids[1]].type = "Identifier"
       /\ nodes[nodes[call].kids[1]].name = "Object"
       /\ nodes[member].type = "MemberExpression" /\ ~nodes[member].computed
       /\ nodes[member].kids[1] = call /\ nodes[nodes[member].kids[2]].name = "y"
       /\ LinkKind(member) = "none"

\* x is the a of a.b.c
IsTwoMembersObject(x) ==
    LET inner == Up(x, 1)
        outer == Up(x, 2)
    IN /\ outer # 0
       /\ nodes[inner].type = "MemberExpression" /\ ~nodes[inner].computed
       /\ nodes[inner].kids[1] = x /\ nodes[nodes[inner].kids[2]].name = "b"
       /\ nodes[outer].type = "MemberExpression" /\ ~nodes[outer].computed
       /\ nodes[outer].kids[1] = inner /\ nodes[nodes[outer].kids[2]].name = "c"
       /\ LinkKind(outer) = "none"

LinkTypes(meta) == [k \in 1..Len(meta) |-> meta[k].type]

LinkProperties(meta) == [k \in 1..Len(meta) |-> meta[k].property]

\* The three chains of the claim
C13_Scenarios ==
    \A x \in 1..Len(nodes) : \A ref \in UseRefsAt(x) :
       /\ IsCommaCallObject(x) =>
            /\ Len(ref.meta) >= 3
            /\ SubSeq(LinkTypes(ref.meta), 1, 3) = <<"member", "inherit", "call">>
            /\ ref.meta[1].property = "method"
            /\ ref.meta[2].start.line = <<"node", Up(x, 3), <<>>, "start">>
            /\ ref.meta[2].end.line = <<"node", Up(x, 2), <<>>, "end">>
            /\ ref.meta[2].end.column = 1
       /\ IsObjectArgument(x) =>
            /\ LinkTypes(ref.meta) = <<"inherit", "member">>
            /\ ref.meta[2].property = "y"
       /\ IsTwoMembersObject(x) =>
            /\ LinkTypes(ref.meta) = <<"member", "member">>
            /\ LinkProperties(ref.meta) = <<"b", "c">>

\* C13: for obj in (0, obj.method)() the chain is a member link (method),
\* an inherit link with the widened range, a call link; for x in
\* Object(x).y an inherit link, then a member link (y); for a in a.b.c two
\* member links (b, c); each link's parent is the classification one
\* ancestor further out, and the chain ends at the first ancestor matching
\* no pattern.
C13_MetaChains == C13_Scenarios /\ C13_ChainFollowsAncestors

\* The obj of (0, obj.method)() has been recorded with its chain
C13_Witness ==
    \E x \in 1..Len(nodes) :
       /\ IsCommaCallObject(x)
       /\ UseRefsAt(x) # {}
       /\ \A ref \in UseRefsAt(x) : Len(ref.meta) = 3

--------------------------------------------------------------------------
\* C14: the range of a comma-discard's inherit link

\* The k-th wrapper around x is a comma-discard
IsCommaLink(x, k) ==
    /\ LinkKind(Up(x, k - 1)) = "inherit"
    /\ nodes[Up(x, k)].type = "SequenceExpression"

\* The comma expression is the callee of a call
IsCalleeOfCall(comma) ==
    LET call == nodes[comma].parent
    IN call # 0 /\ nodes[call].type = "CallExpression" /\ nodes[call].kids[1] = comma

\* The link's range is the comma expression's, expanded to the start of the
\* call around it and one column past its own end
IsWidened(link, comma) ==
    /\ link.start.line = <<"node", nodes[comma].parent, <<>>, "start">>
    /\ link.end.line = <<"node", comma, <<>>, "end">>
    /\ link.end.column = NodeLoc(comma).end.column + 1

\* The link's range is the comma expression's own range
IsOwnRange(link, comma) ==
    /\ link.start.line = <<"node", comma, <<>>, "start">>
    /\ link.start.column = NodeLoc(comma).start.column
    /\ link.end.line = <<"node", comma, <<>>, "end">>
    /\ link.end.column = NodeLoc(comma).end.column

\* C14 as stated: the inherit link of a comma-discard has the comma
\* expression's own range, widened exactly when the comma expression is the
\* callee of a call that has no arguments; as the callee of a call with
\* arguments it is not widened.
C14_Original ==
    \A x \in 1..Len(nodes) : \A ref \in UseRefsAt(x) : \A k \in 1..Len(ref.meta) :
       IsCommaLink(x, k) =>
          IF IsCalleeOfCall(Up(x, k)) /\ Len(nodes[Up(x, k + 1)].kids) = 1
          THEN IsWidened(ref.meta[k], Up(x, k))
          ELSE IsOwnRange(ref.meta[k], Up(x, k))

\* C14 amended: the inherit link of a comma-discard has the comma
\* expression's own range, widened (start at the enclosing call's start,
\* end one column past the comma expression's end) exactly when the comma
\* expression is the callee of a call, whatever the number of arguments of
\* that call.
C14_WidenedForEveryCall ==
    \A x \in 1..Len(nodes) : \A ref \in UseRefsAt(x) : \A k \in 1..Len(ref.meta) :
       IsCommaLink(x, k) =>
          IF IsCalleeOfCall(Up(x, k))
          THEN IsWidened(ref.meta[k], Up(x, k))
          ELSE IsOwnRange(ref.meta[k], Up(x, k))

\* (0, f)(a): the inherit link of f is widened although the call has an
\* argument
C14_Witness ==
    \E x \in 1..Len(nodes) : \E ref \in UseRefsAt(x) :
       /\ Len(ref.meta) = 1
       /\ IsCommaLink(x, 1)
       /\ IsCalleeOfCall(Up(x, 1))
       /\ Len(nodes[Up(x, 2)].kids) = 2
       /\ IsWidened(ref.meta[1], Up(x, 1))

--------------------------------------------------------------------------
\* C15: computed member accesses with a key that is no string literal

\* Node c is the object of a computed member access whose key is not a
\* string literal
IsDynamicMemberObject(c) ==
    LET p == nodes[c].parent
    IN /\ p # 0
       /\ nodes[p].type = "MemberExpression" /\ nodes[p].kids[1] = c
       /\ nodes[p].computed
       /\ nodes[nodes[p].kids[2]].type # "StringLiteral"

\* Every wrapper below the j-th one around x gives a link
LinkedUpTo(x, j) == \A i \in 1..j : LinkKind(Up(x, i - 1)) # "none"

\* C15: where the node being classified is the object of a computed member
\* access whose key is not a string literal, no link is made and no error
\* raised: the reference is recorded with the links of the inner wrappers
\* only, the last of them without a parent link, and with no meta-binding
\* at all when the reference itself is that object.
C15_DynamicKeyTruncates ==
    /\ pc \notin {"Assertion failure - unsynchronized pop",
                  "Assertion failure - should be module"}
    /\ \A x \in 1..Len(nodes) :
         /\ (nodes[x].entered /\ ReferredName(nodes, x) \in GlobalNames) =>
               Cardinality(UseRefsAt(x)) = 1
         /\ \A ref \in UseRefsAt(x) : \A j \in 0..Len(nodes) :
               (Up(x, j) # 0 /\ LinkedUpTo(x, j) /\ IsDynamicMemberObject(Up(x, j))) =>
                  Len(ref.meta) = j

\* exports.b[k] and exports[k] were recorded: one member link and none
C15_Witness ==
    /\ \E x \in 1..Len(nodes) : \E ref \in UseRefsAt(x) :
         /\ IsDynamicMemberObject(Up(x, 1))
         /\ LinkTypes(ref.meta) = <<"member">>
    /\ \E x \in 1..Len(nodes) : \E ref \in UseRefsAt(x) :
         /\ IsDynamicMemberObject(x)
         /\ ref.meta = <<>>

--------------------------------------------------------------------------
\* C16: the types of the output's scopes

\* The types of the scopes of an output tree
RECURSIVE OutputTypes(_)
OutputTypes(parsed) ==
    UNION {{parsed[i].type} \cup OutputTypes(parsed[i].children) : i \in 1..Len(parsed)}

\* The output scope `parsed` is scope s: same name, range and bindings, the
\* type too but for a module's, and the same children in the same order
RECURSIVE IsOutputOf(_, _)
IsOutputOf(parsed, s) ==
    /\ parsed.displayName = scopes[s].displayName
    /\ parsed.start = scopes[s].loc.start
    /\ parsed.end = scopes[s].loc.end
    /\ parsed.bindings = scopes[s].bindings
    /\ parsed.type = IF scopes[s].type = "module" THEN "block" ELSE scopes[s].type
    /\ Len(parsed.children) = Len(scopes[s].children)
    /\ \A i \in 1..Len(parsed.children) :
         IsOutputOf(parsed.children[i], scopes[s].children[i])

\* C16: in the output of every call, whether or not the collapse was
\* performed, every scope's type is object, function or block and none is
\* module; a module scope that was not collapsed appears as a block-typed
\* scope with the same bindings and children.
C16_OutputTypes ==
    pc = "done" =>
       /\ OutputTypes(output.scopes) \subseteq {"object", "function", "block"}
       /\ Len(output.scopes) = 1
       /\ IsOutputOf(output.scopes[1], 1)
       /\ ~stripped =>
            LET module == output.scopes[1].children[1].children[1]
            IN /\ scopes[3].type = "module"
               /\ module.type = "block"
               /\ module.displayName = "Module"
               /\ module.bindings = scopes[3].bindings
               /\ IsOutputOf(module, 3)

\* The output of a run without collapse: the Module scope, with a binding
\* of its own and a function's scope as child
C16_Witness ==
    /\ pc = "done" /\ ~stripped
    /\ "a" \in DOMAIN scopes[3].bindings
    /\ Len(output.scopes[1].children[1].children[1].children) = 1
    /\ output.scopes[1].children[1].children[1].children[1].type = "function"

--------------------------------------------------------------------------
\* C17: empty ASTs, and the roots of the output

IsFailure == pc \in {"Assertion failure - unsynchronized pop",
                     "Assertion failure - should be module"}

\* C17: for an empty AST the pass returns 'no scopes available' (null)
\* without traversing, creating a scope or raising an error; for every
\* other AST the output is a sequence of exactly one root, the object-typed
\* global scope.
C17_EmptyAst ==
    /\ ~IsFailure
    /\ astEmpty =>
         /\ pc \in {"start", "returned"}
         /\ scopes = <<>> /\ scopeStack = <<>> /\ cursor = <<>>
         /\ nodes = <<FileNode>>
         /\ output = IF pc = "returned" THEN [value |-> "null", scopes |-> <<>>]
                     ELSE NoOutput
    /\ ~astEmpty =>
         /\ pc # "returned"
         /\ output.value \in {"pending", "scopes"}
         /\ output.value = "scopes" <=> pc = "done"
         /\ pc = "done" =>
              /\ Len(output.scopes) = 1
              /\ output.scopes[1].type = "object"
              /\ output.scopes[1].displayName = "Global"

\* The pass has returned for an empty AST
C17_Witness == astEmpty /\ pc = "returned" /\ output.value = "null"

--------------------------------------------------------------------------
\* C18: function f(a) { let b = a; return b + this.x; }

\* The i-th child of node id; 0 if there is none
Kid(id, i) == IF id # 0 /\ i <= Len(nodes[id].kids) THEN nodes[id].kids[i] ELSE 0

\* Node id exists and has this type and name
IsNode(id, type, name) == id # 0 /\ nodes[id].type = type /\ nodes[id].name = name

\* The source is exactly that function declaration
IsScenarioSource ==
    /\ Len(nodes) = 13
    /\ Len(nodes[2].kids) = 1
    /\ LET fd == Kid(2, 1)
           body == Kid(fd, 1)
           vd == Kid(body, 1)
           ret == Kid(body, 2)
           init == Kid(Kid(vd, 1), 1)
           bin == Kid(ret, 1)
           left == Kid(bin, 1)
           member == Kid(bin, 2)
       IN /\ IsNode(fd, "FunctionDeclaration", "f")
          /\ nodes[fd].pats = <<PId("a")>>
          /\ IsNode(vd, "VariableDeclaration", "")
          /\ nodes[vd].kind = "let" /\ nodes[vd].pats = <<PId("b")>>
          /\ IsNode(init, "Identifier", "a")
          /\ IsNode(ret, "ReturnStatement", "")
          /\ IsNode(bin, "BinaryExpression", "")
          /\ IsNode(left, "Identifier", "b")
          /\ IsNode(member, "MemberExpression", "x")
          /\ ~nodes[member].computed
          /\ IsNode(Kid(member, 1), "ThisExpression", "")
          /\ IsNode(Kid(member, 2), "Identifier", "x")

\* Every scope of an output tree
RECURSIVE OutputScopes(_)
OutputScopes(parsed) ==
    UNION {{parsed[i]} \cup OutputScopes(parsed[i].children) : i \in 1..Len(parsed)}

\* The function scopes named f of the output
FunctionScopesNamedF ==
    {p \in OutputScopes(output.scopes) : p.type = "function" /\ p.displayName = "f"}

\* How many references of the given type the binding has
CountRefs(b, type) == Cardinality({i \in 1..Len(b.refs) : b.refs[i].type = type})

\* The registry holds `name` with this kind, decls declarations and uses uses
HoldsWith(bindings, name, kind, decls, uses) ==
    /\ name \in DOMAIN bindings
    /\ bindings[name].type = kind
    /\ CountRefs(bindings[name], "decl") = decls
    /\ CountRefs(bindings[name], "ref") = uses
    /\ Len(bindings[name].refs) = decls + uses

\* The binding's only reference is a use whose meta-binding is one member
\* link for property x
IsUsedAsMemberX(b) ==
    /\ Len(b.refs) = 1
    /\ b.refs[1].type = "ref"
    /\ LinkTypes(b.refs[1].meta) = <<"member">>
    /\ b.refs[1].meta[1].property = "x"

\* C18 as stated: the output for that source has one function scope named f
\* whose own registry holds var a with one declaration reference, let b
\* with one declaration and one use, implicit this with one use whose
\* meta-binding is a member link for x, and implicit arguments without
\* references.
C18_Original ==
    (pc = "done" /\ IsScenarioSource) =>
       /\ Cardinality(FunctionScopesNamedF) = 1
       /\ \A p \in FunctionScopesNamedF :
            /\ "a" \in DOMAIN p.bindings
            /\ p.bindings["a"].type = "var"
            /\ CountRefs(p.bindings["a"], "decl") = 1
            /\ HoldsWith(p.bindings, "b", "let", 1, 1)
            /\ "this" \in DOMAIN p.bindings
            /\ p.bindings["this"].type = "implicit"
            /\ IsUsedAsMemberX(p.bindings["this"])
            /\ HoldsWith(p.bindings, "arguments", "implicit", 0, 0)

\* C18 amended: the output for that source has one function scope named f;
\* its own registry holds exactly var a (one declaration and one use
\* reference), implicit this (one use whose meta-binding is a member link
\* for x) and implicit arguments (no references); its only child is the
\* 'Block' block scope of the function's body, whose registry holds exactly
\* let b with one declaration and one use reference.
C18_Scenario ==
    (pc = "done" /\ IsScenarioSource) =>
       /\ Cardinality(FunctionScopesNamedF) = 1
       /\ \A p \in FunctionScopesNamedF :
            /\ DOMAIN p.bindings = {"a", "this", "arguments"}
            /\ HoldsWith(p.bindings, "a", "var", 1, 1)
            /\ p.bindings["this"].type = "implicit"
            /\ IsUsedAsMemberX(p.bindings["this"])
            /\ HoldsWith(p.bindings, "arguments", "implicit", 0, 0)
            /\ Len(p.children) = 1
            /\ p.children[1].type = "block"
            /\ p.children[1].displayName = "Block"
            /\ p.children[1].children = <<>>
            /\ DOMAIN p.children[1].bindings = {"b"}
            /\ HoldsWith(p.children[1].bindings, "b", "let", 1, 1)

\* The pass has finished on that source
C18_Witness == pc = "done" /\ IsScenarioSource

--------------------------------------------------------------------------
\* C19

\* The second call has returned
SecondReturned == calls = 2 /\ pc \in {"done", "returned"}

\* The second call returns what the first returned
C19_SameOutput == SecondReturned => output = firstOutput

\* When the second traversal starts, the scopes are the two global scopes
\* alone: the lexical global scope has no child, no binding has a reference
C19_FreshState ==
    (calls = 2 /\ pc = "ready") =>
       /\ Len(scopes) = 2
       /\ scope = 2
       /\ scopeStack = <<>>
       /\ scopes[1].children = <<2>>
       /\ scopes[2].children = <<>>
       /\ \A s \in 1..2 :
            \A name \in DOMAIN scopes[s].bindings :
               scopes[s].bindings[name].refs = <<>>

\* No step changes a node of the AST that exists (the first traversal only
\* meets the children of the node it enters), and the second call changes
\* nothing of the AST
C19_AstUntouched ==
    /\ Len(nodes') >= Len(nodes)
    /\ \A id \in 1..Len(nodes) :
         /\ HeaderOf(nodes'[id]) = HeaderOf(nodes[id])
         /\ nodes'[id].key = nodes[id].key
         /\ nodes'[id].parent = nodes[id].parent
         /\ nodes[id].entered => nodes'[id] = nodes[id]
    /\ calls = 2 => nodes' = nodes

--------------------------------------------------------------------------
\* C20: uses and the order of the traversal

\* The scopes around node x whose registry holds `name`
EnclosingDeclarers(x, name) ==
    {s \in 1..Len(scopes) :
       name \in DOMAIN scopes[s].bindings /\ IsAncestor(NodeOfScope(scopes[s]), x)}

\* The innermost of them; 0 if there is none
InnermostDeclarer(x, name) ==
    LET around == EnclosingDeclarers(x, name)
    IN IF around = {} THEN 0
       ELSE CHOOSE s \in around :
              \A t \in around :
                 \E i \in 1..Len(ChainOf(scopes, s)) : ChainOf(scopes, s)[i] = t

\* C20 as stated: at the end of the traversal, the use at every reference
\* whose name some scope around it declares is in the binding of the
\* innermost such scope and in no other binding, whether the declaration
\* was visited before the reference or after it.
C20_Original ==
    pc = "traversed" =>
       \A x \in 1..Len(nodes) :
          LET name == ReferredName(nodes, x)
              target == InnermostDeclarer(x, name)
          IN (name # "" /\ target # 0) =>
                /\ HasUseAt(scopes[target].bindings[name], x)
                /\ \A s \in 1..Len(scopes) : \A other \in DOMAIN scopes[s].bindings :
                     HasUseAt(scopes[s].bindings[other], x) => (s = target /\ other = name)

--------------------------------------------------------------------------
\* C21: reference lists during the traversal

\* Sequence p is the beginning of sequence q
IsPrefix(p, q) == Len(p) <= Len(q) /\ SubSeq(q, 1, Len(p)) = p

\* The step keeps every registry entry, with its kind, and its references
\* as the beginning of the entry's references after the step
EntriesOnlyGrow ==
    /\ Len(scopes') >= Len(scopes)
    /\ \A s \in 1..Len(scopes) : \A name \in DOMAIN scopes[s].bindings :
         /\ name \in DOMAIN scopes'[s].bindings
         /\ scopes'[s].bindings[name].type = scopes[s].bindings[name].type
         /\ IsPrefix(scopes[s].bindings[name].refs, scopes'[s].bindings[name].refs)

\* C21 as stated: no step of the traversal removes a reference recorded
\* for a (scope, name) entry or changes the entry's kind, a further
\* declaration of a name the target scope already holds included.
C21_Original == [][(pc \in {"ready", "traverse"}) => EntriesOnlyGrow]_vars

--------------------------------------------------------------------------
\* C22: the references of the three outermost scopes across the collapse

\* Some reference of binding b is ref
HasRef(b, ref) == \E i \in 1..Len(b.refs) : b.refs[i] = ref

\* Every reference of the global, the lexical global and the module scope
\* is, after the step, a reference of the binding of the same name in the
\* global or the lexical global scope
ReferencesKept ==
    \A s \in {1, 2, scopes[2].children[1]} : \A name \in DOMAIN scopes[s].bindings :
       \A i \in 1..Len(scopes[s].bindings[name].refs) :
          \E t \in {1, 2} :
             /\ name \in DOMAIN scopes'[t].bindings
             /\ HasRef(scopes'[t].bindings[name], scopes[s].bindings[name].refs[i])

\* C22 as stated: the collapse loses no reference, a module scope that
\* declares a seeded global name that has references included.
C22_Original == [][(pc = "traversed" /\ stripped') => ReferencesKept]_vars

====
